---- MODULE Spec2Model ----
(***************************************************************************)
(* Model of the multi-format serialization layer of binance-endpoints      *)
(* (src/app/core/serializers.py): the serializer factory and the JSON,     *)
(* CSV, HTML, XML and chart serializers applied to a result tree.          *)
(***************************************************************************)
EXTENDS Integers, Sequences, FiniteSets, TLC

VARIABLES data, fmt, ser, timestamp, pc, path, out, err, prev, content_type,
          figs, callers, client, request, response

\* One request served by a serializer.
serializer_vars == <<data, fmt, ser, timestamp, pc, path, out, err, prev, content_type>>

\* pyplot's figure registry and the threads that draw charts.
pyplot_vars == <<figs, callers>>

\* The Binance client, a call of the analysis API and its response.
api_vars == <<client, request, response>>

vars == <<serializer_vars, pyplot_vars, api_vars>>

(***************************************************************************)
(* Result-tree values: the Python values a serializer receives.  A dict is *)
(* an insertion-ordered sequence of <<key, value>> pairs with unique keys, *)
(* a float is held in tenths (Float(50) is 5.0).                           *)
(***************************************************************************)
None == [t |-> "none"]
Bool(b) == [t |-> "bool", b |-> b]
Integer(n) == [t |-> "int", n |-> n]
Float(m) == [t |-> "float", m |-> m]
Str(s) == [t |-> "str", s |-> s]
Dict(kv) == [t |-> "dict", kv |-> kv]
List(el) == [t |-> "list", el |-> el]

IsDict(v) == v.t = "dict"
IsList(v) == v.t = "list"
IsStr(v) == v.t = "str"
IsNum(v) == v.t \in {"int", "float"}

\* Results of a step that may raise: a value, or the exception class raised.
Ok(v) == [ok |-> TRUE, val |-> v]
Raise(e) == [ok |-> FALSE, err |-> e]

\* dict.keys()
Keys(d) == [i \in 1..Len(d.kv) |-> d.kv[i][1]]

\* `k in d` for a dict d
HasKey(d, k) == \E i \in 1..Len(d.kv) : d.kv[i][1] = k

\* d[k] for a dict d that has k
Get(d, k) == d.kv[CHOOSE i \in 1..Len(d.kv) : d.kv[i][1] = k][2]

\* d.get(k, default) for a dict d
GetOr(d, k, default) == IF HasKey(d, k) THEN Get(d, k) ELSE default

\* bool(v): the truth value Python gives a value in `if v` / `not v`
Truthy(v) ==
    CASE v.t = "none" -> FALSE
      [] v.t = "bool" -> v.b
      [] v.t = "int" -> v.n # 0
      [] v.t = "float" -> v.m # 0
      [] v.t = "str" -> v.s # ""
      [] v.t = "dict" -> Len(v.kv) > 0
      [] v.t = "list" -> Len(v.el) > 0

\* `k in v` for any value v: key test on a dict, element test on a list,
\* substring test on a str (the model's strings are atomic tokens, so only
\* the whole-string match is a substring), TypeError on the other scalars.
PyIn(k, v) ==
    CASE v.t = "dict" -> Ok(HasKey(v, k))
      [] v.t = "list" -> Ok(\E i \in 1..Len(v.el) : v.el[i] = Str(k))
      [] v.t = "str" -> Ok(v.s = k)
      [] OTHER -> Raise("TypeError")

\* `for x in v`: the items iterated, or TypeError for a value that is not
\* iterable.  A dict iterates its keys; a non-empty str iterates strings.
Iter(v) ==
    CASE v.t = "list" -> Ok(v.el)
      [] v.t = "dict" -> Ok([i \in 1..Len(v.kv) |-> Str(v.kv[i][1])])
      [] v.t = "str" -> Ok(IF v.s = "" THEN <<>> ELSE <<Str(v.s)>>)
      [] OTHER -> Raise("TypeError")

(***************************************************************************)
(* String forms.                                                           *)
(***************************************************************************)
Digit(d) ==
    CASE d = 0 -> "0" [] d = 1 -> "1" [] d = 2 -> "2" [] d = 3 -> "3"
      [] d = 4 -> "4" [] d = 5 -> "5" [] d = 6 -> "6" [] d = 7 -> "7"
      [] d = 8 -> "8" [] d = 9 -> "9"

RECURSIVE NatStr(_)
NatStr(n) == IF n < 10 THEN Digit(n) ELSE NatStr(n \div 10) \o Digit(n % 10)

\* str(n) for an int
IntStr(n) == IF n < 0 THEN "-" \o NatStr(-n) ELSE NatStr(n)

\* repr(x) for a float held in tenths
FloatStr(m) ==
    IF m < 0 THEN "-" \o NatStr((-m) \div 10) \o "." \o Digit((-m) % 10)
    ELSE NatStr(m \div 10) \o "." \o Digit(m % 10)

\* The sequences of a sequence, one after the other.
RECURSIVE Concat(_)
Concat(seqs) == IF Len(seqs) = 0 THEN <<>> ELSE Head(seqs) \o Concat(Tail(seqs))

RECURSIVE JoinStr(_, _)
JoinStr(parts, sep) ==
    IF Len(parts) = 0 THEN ""
    ELSE IF Len(parts) = 1 THEN parts[1]
    ELSE parts[1] \o sep \o JoinStr(Tail(parts), sep)

\* repr(v): the form str() gives a value nested in a list or a dict
RECURSIVE PyRepr(_)
PyRepr(v) ==
    CASE v.t = "none" -> "None"
      [] v.t = "bool" -> IF v.b THEN "True" ELSE "False"
      [] v.t = "int" -> IntStr(v.n)
      [] v.t = "float" -> FloatStr(v.m)
      [] v.t = "str" -> "'" \o v.s \o "'"
      [] v.t = "list" ->
           "[" \o JoinStr([i \in 1..Len(v.el) |-> PyRepr(v.el[i])], ", ") \o "]"
      [] v.t = "dict" ->
           "{" \o JoinStr([i \in 1..Len(v.kv) |->
                    "'" \o v.kv[i][1] \o "': " \o PyRepr(v.kv[i][2])], ", ") \o "}"

\* str(v)
PyStr(v) == IF v.t = "str" THEN v.s ELSE PyRepr(v)

\* The cell csv.writer writes for a value: None is the empty cell, a str is
\* itself, everything else is its str() form.
CsvCell(v) == IF v.t = "none" THEN "" ELSE PyStr(v)

(***************************************************************************)
(* CSVSerializer.  The output is the grid csv.writer was given: a sequence *)
(* of rows, each a sequence of cells.                                      *)
(***************************************************************************)

\* CSVPath with the time-series check moved before the summary check.
CSVPathTechnicalFirst(d) ==
    IF HasKey(d, "time_series_data") THEN "technical"
    ELSE IF HasKey(d, "summary") THEN "market_stats"
    ELSE IF HasKey(d, "correlation_matrix") THEN "correlation"
    ELSE IF HasKey(d, "order_book_depth") THEN "liquidity"
    ELSE "generic"

\* The path CSVSerializer.serialize dispatches to.
CSVPath(d) ==
    IF HasKey(d, "summary") THEN "market_stats"
    ELSE IF HasKey(d, "time_series_data") THEN "technical"
    ELSE IF HasKey(d, "correlation_matrix") THEN "correlation"
    ELSE IF HasKey(d, "order_book_depth") THEN "liquidity"
    ELSE "generic"

\* for key, value in self.data["summary"].items(): one row each
SummaryRows(d) ==
    IF ~HasKey(d, "summary") THEN Ok(<<>>)
    ELSE LET s == Get(d, "summary") IN
         IF ~IsDict(s) THEN Raise("AttributeError")
         ELSE Ok([i \in 1..Len(s.kv) |->
                    <<"summary_" \o s.kv[i][1], CsvCell(s.kv[i][2])>>])

\* PerformerRow with its two cells swapped.
PerformerRowSwapped(p) ==
    <<CsvCell(GetOr(p, "price_change_percent", Str(""))),
      CsvCell(GetOr(p, "symbol", Str("")))>>

\* One row of the top-performers sub-table.
PerformerRow(p) ==
    <<CsvCell(GetOr(p, "symbol", Str(""))),
      CsvCell(GetOr(p, "price_change_percent", Str("")))>>

\* The separator row, the sub-table header and the performer rows.
PerformerRows(d) ==
    IF ~HasKey(d, "rankings") THEN Ok(<<>>)
    ELSE LET r == Get(d, "rankings")
             has == PyIn("top_performers", r)
         IN IF ~has.ok THEN Raise(has.err)
            ELSE IF ~has.val THEN Ok(<<>>)
            ELSE IF ~IsDict(r) THEN Raise("TypeError")
            ELSE LET it == Iter(Get(r, "top_performers")) IN
                 IF ~it.ok THEN Raise(it.err)
                 ELSE IF \E i \in 1..Len(it.val) : ~IsDict(it.val[i])
                      THEN Raise("AttributeError")
                 ELSE Ok(<< <<"--- top_performers ---", "">>,
                            <<"symbol", "price_change_percent">> >>
                         \o [i \in 1..Len(it.val) |-> PerformerRow(it.val[i])])

serialize_market_stats_csv(d) ==
    LET s == SummaryRows(d)
        p == PerformerRows(d)
    IN IF ~s.ok THEN s
       ELSE IF ~p.ok THEN p
       ELSE Ok(<< <<"metric", "value">> >> \o s.val \o p.val)

\* self.data["time_series_data"][-1]
FirstOfLast(ts) ==
    CASE ts.t = "list" -> Ok(ts.el[Len(ts.el)])
      [] ts.t = "dict" -> Raise("KeyError")
      [] ts.t = "str" -> Ok(Str(ts.s))
      [] OTHER -> Raise("TypeError")

\* self.data["time_series_data"][0]
FirstOf(ts) ==
    CASE ts.t = "list" -> Ok(ts.el[1])
      [] ts.t = "dict" -> Raise("KeyError")
      [] ts.t = "str" -> Ok(Str(ts.s))
      [] OTHER -> Raise("TypeError")

serialize_technical_csv(d) ==
    IF ~HasKey(d, "time_series_data") THEN Ok(<<>>)
    ELSE LET ts == Get(d, "time_series_data") IN
         IF ~Truthy(ts) THEN Ok(<<>>)
         ELSE LET first == FirstOf(ts) IN
              IF ~first.ok THEN first
              ELSE IF ~IsDict(first.val) THEN Raise("AttributeError")
              ELSE LET headers == Keys(first.val)
                       it == Iter(ts)
                   IN IF \E i \in 1..Len(it.val) : ~IsDict(it.val[i])
                      THEN Raise("AttributeError")
                      ELSE Ok(<<headers>> \o
                              [i \in 1..Len(it.val) |->
                                 [j \in 1..Len(headers) |->
                                    CsvCell(GetOr(it.val[i], headers[j], Str("")))]])

\* A matrix row that lists the values of the inner mapping in its own order.
CorrelationRowOwnValues(matrix, symbols, i) ==
    <<symbols[i]>> \o
    [j \in 1..Len(matrix.kv[i][2].kv) |-> CsvCell(matrix.kv[i][2].kv[j][2])]

\* The row of symbols[i]: the label, then matrix[symbol].get(other_symbol, "")
\* for every other_symbol of the header.
CorrelationRow(matrix, symbols, i) ==
    <<symbols[i]>> \o
    [j \in 1..Len(symbols) |-> CsvCell(GetOr(matrix.kv[i][2], symbols[j], Str("")))]

serialize_correlation_csv(d) ==
    IF ~HasKey(d, "correlation_matrix") THEN Ok(<<>>)
    ELSE LET cm == Get(d, "correlation_matrix")
             has == PyIn("raw_matrix", cm)
         IN IF ~has.ok THEN Raise(has.err)
            ELSE IF ~has.val THEN Ok(<<>>)
            ELSE IF ~IsDict(cm) THEN Raise("TypeError")
            ELSE LET matrix == Get(cm, "raw_matrix") IN
                 IF ~IsDict(matrix) THEN Raise("AttributeError")
                 ELSE LET symbols == Keys(matrix) IN
                      IF \E i \in 1..Len(symbols) : ~IsDict(matrix.kv[i][2])
                      THEN Raise("AttributeError")
                      ELSE Ok(<< <<"symbol">> \o symbols >> \o
                              [i \in 1..Len(symbols) |->
                                 CorrelationRow(matrix, symbols, i)])

\* A row of the depth table that is labelled bid whatever its side.
LevelRowAlwaysBid(side, level) ==
    <<"bid",
      CsvCell(GetOr(level, "level", Str(""))),
      CsvCell(GetOr(level, "price", Str(""))),
      CsvCell(GetOr(level, "quantity", Str(""))),
      CsvCell(GetOr(level, "cumulative_volume", Str("")))>>

\* One row of the depth table.
LevelRow(side, level) ==
    <<side,
      CsvCell(GetOr(level, "level", Str(""))),
      CsvCell(GetOr(level, "price", Str(""))),
      CsvCell(GetOr(level, "quantity", Str(""))),
      CsvCell(GetOr(level, "cumulative_volume", Str("")))>>

\* The rows of one side of the book: order_book.get(side, {}) and its
\* depth_levels, when it has them.
SideRows(ob, key, side) ==
    LET s == GetOr(ob, key, Dict(<<>>))
        has == PyIn("depth_levels", s)
    IN IF ~has.ok THEN Raise(has.err)
       ELSE IF ~has.val THEN Ok(<<>>)
       ELSE IF ~IsDict(s) THEN Raise("TypeError")
       ELSE LET it == Iter(Get(s, "depth_levels")) IN
            IF ~it.ok THEN Raise(it.err)
            ELSE IF \E i \in 1..Len(it.val) : ~IsDict(it.val[i])
                 THEN Raise("AttributeError")
            ELSE Ok([i \in 1..Len(it.val) |-> LevelRow(side, it.val[i])])

LiquidityHeader == <<"side", "level", "price", "quantity", "cumulative_volume">>

serialize_liquidity_csv(d) ==
    IF ~HasKey(d, "order_book_depth") THEN Ok(<<LiquidityHeader>>)
    ELSE LET ob == Get(d, "order_book_depth") IN
         IF ~IsDict(ob) THEN Raise("AttributeError")
         ELSE LET bids == SideRows(ob, "bids", "bid")
                  asks == SideRows(ob, "asks", "ask")
              IN IF ~bids.ok THEN bids
                 ELSE IF ~asks.ok THEN asks
                 ELSE Ok(<<LiquidityHeader>> \o bids.val \o asks.val)

\* FullKey without the test for an empty prefix.
FullKeyAlwaysJoined(prefix, key) == prefix \o "_" \o key

\* full_key = f"{prefix}_{key}" if prefix else key
FullKey(prefix, key) == IF prefix # "" THEN prefix \o "_" \o key ELSE key

\* ItemKey that leaves the index out.
ItemKeyNoIndex(full_key, i) == full_key

\* f"{full_key}_{i}" for the zero-based index i
ItemKey(full_key, i) == full_key \o "_" \o IntStr(i)

\* flatten_dict: the rows written for the entries i.. of dict d under
\* prefix, and for the items j.. of a list under full_key.
RECURSIVE FlattenFrom(_, _, _)
RECURSIVE FlattenItems(_, _, _)
FlattenFrom(d, prefix, i) ==
    IF i > Len(d.kv) THEN <<>>
    ELSE LET full_key == FullKey(prefix, d.kv[i][1])
             value == d.kv[i][2]
             here == CASE IsDict(value) -> FlattenFrom(value, full_key, 1)
                       [] IsList(value) -> FlattenItems(value.el, full_key, 1)
                       [] OTHER -> << <<full_key, CsvCell(value)>> >>
         IN here \o FlattenFrom(d, prefix, i + 1)
FlattenItems(el, full_key, j) ==
    IF j > Len(el) THEN <<>>
    ELSE (IF IsDict(el[j])
          THEN FlattenFrom(el[j], ItemKey(full_key, j - 1), 1)
          ELSE << <<ItemKey(full_key, j - 1), CsvCell(el[j])>> >>)
         \o FlattenItems(el, full_key, j + 1)

flatten_dict(d, prefix) == FlattenFrom(d, prefix, 1)

serialize_generic_csv(d) == Ok(<< <<"key", "value">> >> \o flatten_dict(d, ""))

\* CSVSerializer.serialize: the helper of the chosen path.
CSVSerialize(d) ==
    LET p == CSVPath(d) IN
    CASE p = "market_stats" -> serialize_market_stats_csv(d)
      [] p = "technical" -> serialize_technical_csv(d)
      [] p = "correlation" -> serialize_correlation_csv(d)
      [] p = "liquidity" -> serialize_liquidity_csv(d)
      [] OTHER -> serialize_generic_csv(d)

(***************************************************************************)
(* JSONSerializer: json.dumps(self.data, indent=2, ensure_ascii=False).    *)
(***************************************************************************)
RECURSIVE Spaces(_)
Spaces(n) == IF n = 0 THEN "" ELSE " " \o Spaces(n - 1)

\* A token of the JSON text: punctuation, white space, a quoted string, a
\* number or one of the literals null, true and false.
Token(k, s) == [k |-> k, s |-> s]

\* A scalar token that writes true and false as the numbers 1 and 0.
JsonScalarBoolAsNumber(v) ==
    CASE v.t = "none" -> Token("literal", "null")
      [] v.t = "bool" -> Token("number", IF v.b THEN "1" ELSE "0")
      [] v.t = "int" -> Token("number", IntStr(v.n))
      [] v.t = "float" -> Token("number", FloatStr(v.m))
      [] v.t = "str" -> Token("string", v.s)

\* The token json.dumps writes for a scalar.
JsonScalar(v) ==
    CASE v.t = "none" -> Token("literal", "null")
      [] v.t = "bool" -> Token("literal", IF v.b THEN "true" ELSE "false")
      [] v.t = "int" -> Token("number", IntStr(v.n))
      [] v.t = "float" -> Token("number", FloatStr(v.m))
      [] v.t = "str" -> Token("string", v.s)

\* The tokens json.dumps(v, indent=2) writes for a value nested `level` deep:
\* one item or member per line, indented by two spaces per level.
RECURSIVE JsonTokens(_, _)
JsonTokens(v, level) ==
    CASE v.t = "list" ->
           IF Len(v.el) = 0 THEN <<Token("punct", "["), Token("punct", "]")>>
           ELSE <<Token("punct", "[")>>
                \o Concat([i \in 1..Len(v.el) |->
                      <<Token("ws", "\n" \o Spaces(2 * (level + 1)))>>
                      \o JsonTokens(v.el[i], level + 1)
                      \o (IF i < Len(v.el) THEN <<Token("punct", ",")>> ELSE <<>>)])
                \o <<Token("ws", "\n" \o Spaces(2 * level)), Token("punct", "]")>>
      [] v.t = "dict" ->
           IF Len(v.kv) = 0 THEN <<Token("punct", "{"), Token("punct", "}")>>
           ELSE <<Token("punct", "{")>>
                \o Concat([i \in 1..Len(v.kv) |->
                      <<Token("ws", "\n" \o Spaces(2 * (level + 1))),
                        Token("string", v.kv[i][1]),
                        Token("punct", ":"), Token("ws", " ")>>
                      \o JsonTokens(v.kv[i][2], level + 1)
                      \o (IF i < Len(v.kv) THEN <<Token("punct", ",")>> ELSE <<>>)])
                \o <<Token("ws", "\n" \o Spaces(2 * level)), Token("punct", "}")>>
      [] OTHER -> <<JsonScalar(v)>>

\* The characters of a token: a string is written between double quotes.
TokenText(tok) == IF tok.k = "string" THEN "\"" \o tok.s \o "\"" ELSE tok.s

\* The text of a sequence of tokens: the texts of its halves, joined.
RECURSIVE TokensText(_)
TokensText(toks) ==
    IF Len(toks) = 0 THEN ""
    ELSE IF Len(toks) = 1 THEN TokenText(toks[1])
    ELSE TokensText(SubSeq(toks, 1, Len(toks) \div 2))
         \o TokensText(SubSeq(toks, Len(toks) \div 2 + 1, Len(toks)))

\* json.dumps(v, indent=2, ensure_ascii=False)
JsonDumps(v, level) ==
    CHOOSE text \in {TokensText(toks) : toks \in {JsonTokens(v, level)}} : TRUE

JSONSerialize(d) == Ok(JsonDumps(d, 0))

(***************************************************************************)
(* XMLSerializer.  An element is its tag, attributes, text and children.   *)
(***************************************************************************)

\* The keys of the model's trees, cut into pieces: each piece is one of the
\* characters the XML serializer replaces or a run of other characters.
KeyPieces ==
    { <<>>, <<"a">>, <<"b">>, <<"c">>, <<"a", "_", "b">>, <<"a", "_", "0">>,
      <<"summary">>, <<"rankings">>, <<"metadata">>,
      <<"time", "_", "series", "_", "data">>,
      <<"correlation", "_", "matrix">>, <<"raw", "_", "matrix">>,
      <<"order", "_", "book", "_", "depth">>, <<"depth", "_", "levels">>,
      <<"bids">>, <<"asks">>, <<"level">>, <<"price">>, <<"quantity">>,
      <<"cumulative", "_", "volume">>,
      <<"total", "_", "symbols">>, <<"avg", "_", "price", "_", "change", "_", "percent">>,
      <<"avg", "_", "volatility">>, <<"top", "_", "performers">>, <<"symbol">>,
      <<"price", "_", "change", "_", "percent">>, <<"symbols", "_", "processed">>,
      <<"market", "_", "analysis">>, <<"sentiment">>, <<"sentiment", "_", "strength">>,
      <<"market", "_", "regime">>, <<"uniformity">>,
      <<"timestamp">>, <<"close">>, <<"sma", "_", "20">>,
      <<"BTC">>, <<"ETH">>, <<"test">>,
      <<"volume", "_", "distribution">>, <<"0", "-", "1", "%">>, <<"5", "%", "+">>,
      <<"data", " ", "source">>, <<"number">>, <<"nested">>, <<"key">>,
      <<"include", "_", "volume">> }

KeyTable ==
    [k \in {JoinStr(p, "") : p \in KeyPieces} |->
        CHOOSE p \in KeyPieces : JoinStr(p, "") = k]

\* The pieces of key k.
Pieces(k) == KeyTable[k]

\* str(k).replace(" ", "_").replace("%", "percent"): the hyphen is kept
CleanPieceKeepHyphen(c) ==
    CASE c = " " -> "_"
      [] c = "%" -> "percent"
      [] OTHER -> c

\* str(k).replace(" ", "_").replace("%", "percent").replace("-", "_")
CleanPiece(c) ==
    CASE c = " " -> "_"
      [] c = "%" -> "percent"
      [] c = "-" -> "_"
      [] OTHER -> c

CleanKey(k) == JoinStr([i \in 1..Len(Pieces(k)) |-> CleanPiece(Pieces(k)[i])], "")

Element(tag, attrs, text, children) ==
    [tag |-> tag, attrs |-> attrs, text |-> text, children |-> children]

\* ET.SubElement(parent, "item") with its index attribute set
ItemElement(i) == Element("item", << <<"index", IntStr(i)>> >>, "", <<>>)

\* _dict_to_xml(data, parent): the parent element after the call.
RECURSIVE dict_to_xml(_, _)
dict_to_xml(v, parent) ==
    CASE v.t = "dict" ->
           [parent EXCEPT !.children = @ \o
              [i \in 1..Len(v.kv) |->
                 dict_to_xml(v.kv[i][2],
                             Element(CleanKey(v.kv[i][1]), <<>>, "", <<>>))]]
      [] v.t = "list" ->
           [parent EXCEPT !.children = @ \o
              [i \in 1..Len(v.el) |->
                 IF IsDict(v.el[i])
                 THEN dict_to_xml(v.el[i], ItemElement(i - 1))
                 ELSE [ItemElement(i - 1) EXCEPT !.text = PyStr(v.el[i])]]]
      [] OTHER ->
           [parent EXCEPT !.text = IF v.t = "none" THEN "" ELSE PyStr(v)]

\* A serialize that leaves the root element without its timestamp attribute.
XMLSerializeNoStamp(d, ts) ==
    Ok(dict_to_xml(d, Element("binance_data", <<>>, "", <<>>)))

\* XMLSerializer.serialize: the root element and the tree under it.
XMLSerialize(d, ts) ==
    Ok(dict_to_xml(d, Element("binance_data", << <<"timestamp", ts>> >>, "", <<>>)))

(***************************************************************************)
(* ChartSerializer.  The output is the PNG image of the figure; the model  *)
(* keeps what was drawn on the axes.                                       *)
(***************************************************************************)

\* bids[:10], asks[:10]
ChartLevels == 10

\* The timestamps datetime.fromisoformat accepts, among the model's strings.
IsoStrings == {"2024-01-01T00:00:00", "2024-01-01T01:00:00"}

\* The exception v[k] raises, "" when v is a dict that has k.
SubscriptErr(v, k) ==
    IF IsDict(v) THEN (IF HasKey(v, k) THEN "" ELSE "KeyError") ELSE "TypeError"

\* The first exception of a comprehension, "" when no item raises.
FirstError(errs) ==
    IF \A i \in 1..Len(errs) : errs[i] = "" THEN ""
    ELSE errs[CHOOSE i \in 1..Len(errs) :
                 errs[i] # "" /\ \A j \in 1..(i - 1) : errs[j] = ""]

Image(layout, text) == [format |-> "png", layout |-> layout, text |-> text]

\* The branch ChartSerializer.serialize takes.
ChartPath(d) ==
    IF HasKey(d, "time_series_data") THEN "technical"
    ELSE IF HasKey(d, "correlation_matrix") THEN "correlation"
    ELSE IF HasKey(d, "rankings") THEN "market_stats"
    ELSE IF HasKey(d, "order_book_depth") THEN "liquidity"
    ELSE "placeholder"

\* self.data.get('metadata', {}).get('symbol', 'Unknown') in a chart title
TitleErr(d) ==
    IF HasKey(d, "metadata") /\ ~IsDict(Get(d, "metadata")) THEN "AttributeError" ELSE ""

TitleSymbol(d) ==
    PyStr(GetOr(GetOr(d, "metadata", Dict(<<>>)), "symbol", Str("Unknown")))

\* datetime.fromisoformat(item["timestamp"].replace("Z", "+00:00"))
DateErr(item) ==
    IF SubscriptErr(item, "timestamp") # "" THEN SubscriptErr(item, "timestamp")
    ELSE IF ~IsStr(Get(item, "timestamp")) THEN "AttributeError"
    ELSE IF Get(item, "timestamp").s \notin IsoStrings THEN "ValueError"
    ELSE ""

create_technical_chart(d) ==
    LET ts == Get(d, "time_series_data") IN
    IF ~Truthy(ts) THEN Ok(Image("blank", ""))
    ELSE LET it == Iter(ts) IN
         IF ~it.ok THEN Raise(it.err)
         ELSE LET e == FirstError(<<
                      FirstError([i \in 1..Len(it.val) |-> DateErr(it.val[i])]),
                      FirstError([i \in 1..Len(it.val) |-> SubscriptErr(it.val[i], "close")]),
                      TitleErr(d)>>)
                  sma == \E i \in 1..Len(it.val) :
                            GetOr(it.val[i], "sma_20", None) # None
              IN IF e # "" THEN Raise(e)
                 ELSE Ok(Image(IF sma THEN "line+sma" ELSE "line",
                               TitleSymbol(d) \o " - Technical Analysis"))

\* matrix[row][col] for every col, "" when the row has them all
RowErr(matrix, row) ==
    FirstError([j \in 1..Len(matrix.kv) |-> SubscriptErr(row, matrix.kv[j][1])])

\* imshow of the array: a 2-D array of numbers is needed
ArrayErr(matrix) ==
    IF Len(matrix.kv) = 0 THEN "TypeError"
    ELSE IF \E i, j \in 1..Len(matrix.kv) :
               ~IsNum(Get(matrix.kv[i][2], matrix.kv[j][1]))
         THEN "TypeError"
    ELSE ""

create_correlation_heatmap(d) ==
    LET cm == Get(d, "correlation_matrix") IN
    IF SubscriptErr(cm, "raw_matrix") # "" THEN Raise(SubscriptErr(cm, "raw_matrix"))
    ELSE LET matrix == Get(cm, "raw_matrix") IN
         IF ~IsDict(matrix) THEN Raise("AttributeError")
         ELSE LET e == FirstError([i \in 1..Len(matrix.kv) |->
                                      RowErr(matrix, matrix.kv[i][2])])
              IN IF e # "" THEN Raise(e)
                 ELSE IF ArrayErr(matrix) # "" THEN Raise(ArrayErr(matrix))
                 ELSE Ok(Image("heatmap", "Cryptocurrency Correlation Matrix"))

\* p["symbol"].replace("USDT", "")
SymbolErr(p) ==
    IF SubscriptErr(p, "symbol") # "" THEN SubscriptErr(p, "symbol")
    ELSE IF ~IsStr(Get(p, "symbol")) THEN "AttributeError"
    ELSE ""

\* p["price_change_percent"], then `change >= 0`
ChangeErr(p) == SubscriptErr(p, "price_change_percent")

SignErr(p) == IF ~IsNum(Get(p, "price_change_percent")) THEN "TypeError" ELSE ""

create_market_stats_chart(d) ==
    IF ~HasKey(d, "rankings") THEN Ok(Image("blank", ""))
    ELSE LET r == Get(d, "rankings")
             has == PyIn("top_performers", r)
         IN IF ~has.ok THEN Raise(has.err)
            ELSE IF ~has.val THEN Ok(Image("blank", ""))
            ELSE IF ~IsDict(r) THEN Raise("TypeError")
            ELSE LET it == Iter(Get(r, "top_performers")) IN
                 IF ~it.ok THEN Raise(it.err)
                 ELSE LET e == FirstError(<<
                              FirstError([i \in 1..Len(it.val) |-> SymbolErr(it.val[i])]),
                              FirstError([i \in 1..Len(it.val) |-> ChangeErr(it.val[i])])>>)
                      IN IF e # "" THEN Raise(e)
                         ELSE LET s == FirstError([i \in 1..Len(it.val) |->
                                                     SignErr(it.val[i])])
                              IN IF s # "" THEN Raise(s)
                                 ELSE Ok(Image("bars",
                                        "Top Performing Cryptocurrencies (24h Change)"))

\* order_book.get(side, {}).get("depth_levels", [])
SideLevels(ob, side) ==
    LET s == GetOr(ob, side, Dict(<<>>)) IN
    IF ~IsDict(s) THEN Raise("AttributeError")
    ELSE Ok(GetOr(s, "depth_levels", List(<<>>)))

\* levels[:10] of a truthy value: the items, or the exception of the slice
FirstLevels(levels) ==
    CASE levels.t = "list" ->
           Ok(SubSeq(levels.el, 1,
                     IF Len(levels.el) < ChartLevels THEN Len(levels.el) ELSE ChartLevels))
      [] levels.t = "str" -> Ok(<<Str(levels.s)>>)
      [] OTHER -> Raise("TypeError")

\* [level[k] for level in levels[:10]]
ColumnErr(levels, k) ==
    IF ~FirstLevels(levels).ok THEN FirstLevels(levels).err
    ELSE FirstError([i \in 1..Len(FirstLevels(levels).val) |->
                        SubscriptErr(FirstLevels(levels).val[i], k)])

\* [-vol for vol in ask_volumes]
NegateErr(levels) ==
    IF \E i \in 1..Len(FirstLevels(levels).val) :
          ~IsNum(Get(FirstLevels(levels).val[i], "quantity"))
    THEN "TypeError" ELSE ""

create_liquidity_chart(d) ==
    LET ob == Get(d, "order_book_depth") IN
    IF ~IsDict(ob) THEN Raise("AttributeError")
    ELSE LET bids == SideLevels(ob, "bids")
             asks == SideLevels(ob, "asks")
         IN IF ~bids.ok THEN bids
            ELSE IF ~asks.ok THEN asks
            ELSE IF ~Truthy(bids.val) \/ ~Truthy(asks.val)
                 THEN Ok(Image("text", "Insufficient order book data"))
            ELSE LET e == FirstError(<<
                         ColumnErr(bids.val, "price"), ColumnErr(bids.val, "quantity"),
                         ColumnErr(asks.val, "price"), ColumnErr(asks.val, "quantity")>>)
                 IN IF e # "" THEN Raise(e)
                    ELSE IF NegateErr(asks.val) # "" THEN Raise(NegateErr(asks.val))
                    ELSE IF TitleErr(d) # "" THEN Raise(TitleErr(d))
                    ELSE Ok(Image("depth", TitleSymbol(d) \o " - Order Book Depth"))

\* ChartSerializer.serialize: the figure saved as PNG.
ChartSerialize(d) ==
    LET p == ChartPath(d) IN
    CASE p = "technical" -> create_technical_chart(d)
      [] p = "correlation" -> create_correlation_heatmap(d)
      [] p = "market_stats" -> create_market_stats_chart(d)
      [] p = "liquidity" -> create_liquidity_chart(d)
      [] OTHER -> Ok(Image("text", "No chart available for this data type"))

(***************************************************************************)
(* HTMLSerializer.  A template is rendered field by field, in document     *)
(* order; the first field that raises ends the rendering.  The document is *)
(* the template's name with the rendered fields.                           *)
(***************************************************************************)

\* The value of a name or attribute the template finds absent.
Undefined == [t |-> "undefined"]

\* template.render(**self.data, timestamp=self.timestamp): the value of a
\* top-level name.
Context(d, ts, name) ==
    IF name = "timestamp" THEN Str(ts) ELSE GetOr(d, name, Undefined)

\* obj.name / obj[name] in a template: an attribute of an absent value
\* raises, an absent attribute is Undefined.
Attr(r, name) ==
    IF ~r.ok THEN r
    ELSE IF r.val = Undefined THEN Raise("UndefinedError")
    ELSE IF IsDict(r.val) /\ HasKey(r.val, name) THEN Ok(Get(r.val, name))
    ELSE Ok(Undefined)

\* obj[key] with the key a template variable
Item(r, key) ==
    IF IsStr(key) THEN Attr(r, key.s)
    ELSE IF ~r.ok THEN r
    ELSE IF r.val = Undefined THEN Raise("UndefinedError")
    ELSE Ok(Undefined)

RECURSIVE Lookup(_, _, _)
Lookup(d, ts, names) ==
    IF Len(names) = 1 THEN Ok(Context(d, ts, names[1]))
    ELSE Attr(Lookup(d, ts, SubSeq(names, 1, Len(names) - 1)), names[Len(names)])

\* {{ expr }}
Show(r) ==
    IF ~r.ok THEN r
    ELSE IF r.val = Undefined THEN Ok("")
    ELSE Ok(PyStr(r.val))

\* {{ expr|f }} for the string filters upper, title, replace
Filtered(f, r) ==
    IF ~r.ok THEN r
    ELSE IF r.val = Undefined THEN Ok(f \o "()")
    ELSE Ok(f \o "(" \o PyStr(r.val) \o ")")

RECURSIVE Zeros(_)
Zeros(n) == IF n = 0 THEN "" ELSE "0" \o Zeros(n - 1)

\* {{ "%.<n>f"|format(expr) }}: the printf form of a number
Format(n, r) ==
    IF ~r.ok THEN r
    ELSE IF r.val = Undefined THEN Raise("UndefinedError")
    ELSE IF r.val.t = "float" THEN Ok(FloatStr(r.val.m) \o Zeros(n - 1))
    ELSE IF r.val.t = "int" THEN Ok(IntStr(r.val.n) \o "." \o Zeros(n))
    ELSE Raise("TypeError")

\* {{ "{:,.2f}"|format(expr) }}: the format filter applies the % operator,
\* the string has no % conversion, so the argument is never converted.
BraceFormat(r) == IF ~r.ok THEN r ELSE Raise("TypeError")

\* expr > bound, the bound in tenths
Greater(r, tenths) ==
    IF ~r.ok THEN r
    ELSE IF r.val = Undefined THEN Raise("UndefinedError")
    ELSE IF r.val.t = "float" THEN Ok(IF r.val.m > tenths THEN "yes" ELSE "no")
    ELSE IF r.val.t = "int" THEN Ok(IF r.val.n * 10 > tenths THEN "yes" ELSE "no")
    ELSE Raise("TypeError")

\* expr == 'literal'
Equals(r, s) ==
    IF ~r.ok THEN r ELSE Ok(IF r.val = Str(s) THEN "yes" ELSE "no")

\* {% if expr %}
Test(r) ==
    IF ~r.ok THEN r
    ELSE IF r.val = Undefined THEN Ok(FALSE)
    ELSE Ok(Truthy(r.val))

\* {% for x in expr %}: the items, none for an absent value
Loop(r) ==
    IF ~r.ok THEN r
    ELSE IF r.val = Undefined THEN Ok(<<>>)
    ELSE Iter(r.val)

\* {% if cond %} fields {% endif %}
When(cond, fields) ==
    IF ~cond.ok THEN <<cond>> ELSE IF cond.val THEN fields ELSE <<>>

\* the values a {% for %} loop goes through; none when the iterable raised
Rounds(items) == IF items.ok THEN items.val ELSE <<>>

\* {% for x in items %} ... {% endfor %}; rows[i] holds the fields of round i
Each(items, rows) ==
    IF ~items.ok THEN <<items>> ELSE Concat(rows)

\* template.render: the document, or the first exception raised.
Render(d, name, fields) ==
    IF HasKey(d, "timestamp") THEN Raise("TypeError")
    ELSE IF \E i \in 1..Len(fields) : ~fields[i].ok
         THEN Raise(FirstError([i \in 1..Len(fields) |->
                                   IF fields[i].ok THEN "" ELSE fields[i].err]))
    ELSE Ok([template |-> name, fields |-> [i \in 1..Len(fields) |-> fields[i].val]])

\* The path HTMLSerializer.serialize dispatches to.
HTMLPath(d) ==
    IF HasKey(d, "summary") THEN "market_stats"
    ELSE IF HasKey(d, "time_series_data") THEN "technical"
    ELSE IF HasKey(d, "correlation_matrix") THEN "correlation"
    ELSE IF HasKey(d, "order_book_depth") THEN "liquidity"
    ELSE "generic"

PerformerFields(p) ==
    <<Show(Attr(Ok(p), "symbol")),
      Greater(Attr(Ok(p), "price_change_percent"), 0),
      Format(3, Attr(Ok(p), "price_change_percent"))>>

serialize_market_stats_html(d, ts) ==
    Render(d, "Market Statistics Report",
      <<Show(Lookup(d, ts, <<"timestamp">>)),
        Show(Lookup(d, ts, <<"metadata", "symbols_processed">>)),
        Show(Lookup(d, ts, <<"summary", "total_symbols">>)),
        Greater(Lookup(d, ts, <<"summary", "avg_price_change_percent">>), 0),
        Format(2, Lookup(d, ts, <<"summary", "avg_price_change_percent">>)),
        Format(2, Lookup(d, ts, <<"summary", "avg_volatility">>))>>
      \o When(Test(Lookup(d, ts, <<"summary", "total_volume">>)),
              <<BraceFormat(Lookup(d, ts, <<"summary", "total_volume">>))>>)
      \o (LET performers == Loop(Lookup(d, ts, <<"rankings", "top_performers">>))
          IN Each(performers, [i \in DOMAIN Rounds(performers) |->
                                  PerformerFields(Rounds(performers)[i])]))
      \o <<Equals(Lookup(d, ts, <<"market_analysis", "sentiment">>), "bullish"),
           Filtered("upper", Lookup(d, ts, <<"market_analysis", "sentiment">>)),
           Format(2, Lookup(d, ts, <<"market_analysis", "sentiment_strength">>)),
           Filtered("title", Lookup(d, ts, <<"market_analysis", "market_regime">>)),
           Filtered("title", Lookup(d, ts, <<"market_analysis", "uniformity">>))>>)

serialize_technical_html(d, ts) ==
    Render(d, "Technical Analysis Report",
      <<Show(Lookup(d, ts, <<"metadata", "symbol">>)),
        Show(Lookup(d, ts, <<"metadata", "interval">>)),
        Show(Lookup(d, ts, <<"timestamp">>)),
        BraceFormat(Lookup(d, ts, <<"current_state", "latest_price">>)),
        BraceFormat(Lookup(d, ts, <<"current_state", "volume">>))>>
      \o When(Test(Lookup(d, ts, <<"current_state", "price_change_24h">>)),
              <<Greater(Lookup(d, ts, <<"current_state", "price_change_24h">>), 0),
                Format(2, Lookup(d, ts, <<"current_state", "price_change_24h">>))>>)
      \o When(Test(Lookup(d, ts, <<"indicators", "moving_averages", "sma_20">>)),
              <<BraceFormat(Lookup(d, ts, <<"indicators", "moving_averages", "sma_20">>))>>)
      \o When(Test(Lookup(d, ts, <<"indicators", "moving_averages", "sma_50">>)),
              <<BraceFormat(Lookup(d, ts, <<"indicators", "moving_averages", "sma_50">>))>>)
      \o When(Test(Lookup(d, ts, <<"indicators", "oscillators", "rsi">>)),
              <<Format(2, Lookup(d, ts, <<"indicators", "oscillators", "rsi">>)),
                Filtered("title", Lookup(d, ts, <<"indicators", "oscillators", "rsi_signal">>))>>)
      \o <<Show(Lookup(d, ts, <<"trend_analysis", "short_term_trend">>)),
           Filtered("title", Lookup(d, ts, <<"trend_analysis", "short_term_trend">>)),
           Show(Lookup(d, ts, <<"trend_analysis", "long_term_trend">>)),
           Filtered("title", Lookup(d, ts, <<"trend_analysis", "long_term_trend">>)),
           Filtered("title", Lookup(d, ts, <<"trend_analysis", "volatility_regime">>))>>)

\* One cell of the matrix table: corr_val, its class and its printf form.
CellFields(d, ts, row, col) ==
    LET corr_val == Item(Item(Lookup(d, ts, <<"correlation_matrix", "raw_matrix">>), row), col)
        high == Greater(corr_val, 7)
    IN (IF high.ok /\ high.val = "no" THEN <<high, Greater(corr_val, 3)>> ELSE <<high>>)
       \o <<Format(3, corr_val)>>

serialize_correlation_html(d, ts) ==
    LET symbols == Loop(Lookup(d, ts, <<"metadata", "symbols_analyzed">>))
        HeadFields(symbol) == <<Show(Ok(symbol))>>
        RowFields(row) ==
            <<Show(Ok(row))>>
            \o Concat([j \in 1..Len(symbols.val) |-> CellFields(d, ts, row, symbols.val[j])])
    IN Render(d, "Correlation Analysis Report",
         <<Show(Lookup(d, ts, <<"metadata", "analysis_period_days">>)),
           Filtered("join", Lookup(d, ts, <<"metadata", "symbols_analyzed">>))>>
         \o (IF symbols.ok THEN <<>> ELSE <<symbols>>)
         \o <<Show(Lookup(d, ts, <<"timestamp">>))>>
         \o Each(symbols, [i \in DOMAIN Rounds(symbols) |-> HeadFields(Rounds(symbols)[i])])
         \o Each(symbols, [i \in DOMAIN Rounds(symbols) |-> RowFields(Rounds(symbols)[i])])
         \o <<Format(4, Lookup(d, ts, <<"portfolio_metrics", "average_correlation">>)),
              Format(4, Lookup(d, ts, <<"portfolio_metrics", "diversification_score">>)),
              Filtered("title", Lookup(d, ts, <<"market_regime_analysis", "regime">>)),
              Filtered("title", Lookup(d, ts, <<"market_regime_analysis", "systemic_risk">>))>>)

serialize_liquidity_html(d, ts) ==
    Render(d, "Liquidity Analysis Report",
      <<Show(Lookup(d, ts, <<"metadata", "symbol">>)),
        BraceFormat(Lookup(d, ts, <<"metadata", "current_price">>)),
        Show(Lookup(d, ts, <<"timestamp">>)),
        BraceFormat(Lookup(d, ts, <<"spread_analysis", "best_bid">>)),
        BraceFormat(Lookup(d, ts, <<"spread_analysis", "best_ask">>)),
        Format(2, Lookup(d, ts, <<"spread_analysis", "spread", "absolute">>)),
        Format(4, Lookup(d, ts, <<"spread_analysis", "spread", "percent">>)),
        Filtered("title", Lookup(d, ts, <<"spread_analysis", "spread", "classification">>)),
        Format(2, Lookup(d, ts, <<"liquidity_metrics", "liquidity_score">>)),
        Show(Lookup(d, ts, <<"liquidity_metrics", "market_quality">>)),
        Filtered("title", Lookup(d, ts, <<"liquidity_metrics", "market_quality">>)),
        Format(4, Lookup(d, ts, <<"liquidity_metrics", "market_imbalance">>)),
        Filtered("title", Lookup(d, ts, <<"liquidity_metrics", "imbalance_direction">>)),
        BraceFormat(Lookup(d, ts, <<"order_book_depth", "bids", "total_volume">>)),
        Show(Lookup(d, ts, <<"order_book_depth", "bids", "price_levels">>)),
        BraceFormat(Lookup(d, ts, <<"order_book_depth", "asks", "total_volume">>)),
        Show(Lookup(d, ts, <<"order_book_depth", "asks", "price_levels">>))>>)

\* The generic document embeds json.dumps(self.data, indent=2); its
\* render call passes no key of the tree as a keyword.
serialize_generic_html(d, ts) ==
    Ok([template |-> "Binance Data Report", fields |-> <<ts, JsonDumps(d, 0)>>])

\* HTMLSerializer.serialize: the template of the chosen path.
HTMLSerialize(d, ts) ==
    LET p == HTMLPath(d) IN
    CASE p = "market_stats" -> serialize_market_stats_html(d, ts)
      [] p = "technical" -> serialize_technical_html(d, ts)
      [] p = "correlation" -> serialize_correlation_html(d, ts)
      [] p = "liquidity" -> serialize_liquidity_html(d, ts)
      [] OTHER -> serialize_generic_html(d, ts)

(***************************************************************************)
(* The factory and the request it serves.                                  *)
(***************************************************************************)

\* Serializers with the xml entry bound to the HTML class.
SerializersXmlAsHtml ==
    [json |-> "JSONSerializer", csv |-> "CSVSerializer", html |-> "HTMLSerializer",
     xml |-> "HTMLSerializer", chart |-> "ChartSerializer"]

\* get_serializer's table: format identifier -> serializer class
Serializers ==
    [json |-> "JSONSerializer", csv |-> "CSVSerializer", html |-> "HTMLSerializer",
     xml |-> "XMLSerializer", chart |-> "ChartSerializer"]

\* Content types with the XML class labelled as HTML.
ContentTypeXmlAsHtml ==
    [JSONSerializer |-> "application/json", CSVSerializer |-> "text/csv",
     HTMLSerializer |-> "text/html", XMLSerializer |-> "text/html",
     ChartSerializer |-> "image/png"]

\* get_content_type of each serializer class
ContentType ==
    [JSONSerializer |-> "application/json", CSVSerializer |-> "text/csv",
     HTMLSerializer |-> "text/html", XMLSerializer |-> "application/xml",
     ChartSerializer |-> "image/png"]

\* The format identifiers a caller may pass: the five served and some others.
Formats == DOMAIN Serializers \cup {"pdf", "xyz", "invalid"}

\* The values datetime.now().isoformat() may give a serializer.
Clock == {"2026-01-01T00:00:00", "2026-01-01T00:00:01"}

(***************************************************************************)
(* The result trees handed to the serializers.                             *)
(***************************************************************************)

\* Largest number of top-level keys of a generated tree.
MaxTop == 2

Level1 ==
    Dict(<< <<"level", Integer(1)>>, <<"price", Integer(100)>>, <<"quantity", Integer(2)>>,
            <<"cumulative_volume", Integer(2)>> >>)
Level2 ==
    Dict(<< <<"level", Integer(1)>>, <<"price", Integer(101)>>, <<"quantity", Integer(3)>>,
            <<"cumulative_volume", Integer(3)>> >>)
Performer1 ==
    Dict(<< <<"symbol", Str("BTCUSDT")>>, <<"price_change_percent", Float(50)>> >>)
Performer2 == Dict(<< <<"symbol", Str("BTCUSDT")>> >>)
Performer3 ==
    Dict(<< <<"symbol", Str("ETHUSDT")>>, <<"price_change_percent", Float(-10)>> >>)
Candle1 ==
    Dict(<< <<"timestamp", Str("2024-01-01T00:00:00")>>, <<"close", Integer(100)>> >>)
Candle2 ==
    Dict(<< <<"timestamp", Str("2024-01-01T01:00:00")>>, <<"close", Integer(101)>>,
            <<"sma_20", Integer(100)>> >>)
Candle3 == Dict(<< <<"close", Integer(100)>> >>)
Matrix2 ==
    Dict(<< <<"BTC", Dict(<< <<"BTC", Float(10)>>, <<"ETH", Float(5)>> >>)>>,
            <<"ETH", Dict(<< <<"BTC", Float(5)>>, <<"ETH", Float(10)>> >>)>> >>)
Matrix1 ==
    Dict(<< <<"BTC", Dict(<< <<"BTC", Float(10)>> >>)>>, <<"ETH", Dict(<<>>)>> >>)
Side(levels) == Dict(<< <<"depth_levels", List(levels)>> >>)
VolumeBuckets == Dict(<< <<"0-1%", Integer(2)>>, <<"5%+", Integer(0)>> >>)

\* The top-level keys of the generated trees, in their canonical order.
TopKeys ==
    <<"summary", "time_series_data", "correlation_matrix", "order_book_depth",
      "rankings", "metadata", "a", "a_b", "a_0", "", "b">>

\* The values a generated tree gives each top-level key: a mapping, a
\* sequence, a scalar or null, full or sparse.
Pool(k) ==
    CASE k = "summary" ->
           {None, Integer(5), Dict(<<>>),
            Dict(<< <<"total_symbols", Integer(2)>>,
                    <<"avg_price_change_percent", Float(15)>> >>),
            Dict(<< <<"total_symbols", Integer(5)>>,
                    <<"avg_price_change_percent", Float(25)>>,
                    <<"avg_volatility", Float(100)>> >>)}
      [] k = "time_series_data" ->
           {None, Integer(5), List(<<>>), List(<<Candle1, Candle2>>), List(<<Candle3>>),
            List(<<Candle2, Candle3>>)}
      [] k = "correlation_matrix" ->
           {None, Dict(<<>>), Dict(<< <<"raw_matrix", Matrix2>> >>),
            Dict(<< <<"raw_matrix", Matrix1>> >>)}
      [] k = "order_book_depth" ->
           {None, Dict(<<>>),
            Dict(<< <<"bids", Side(<<Level1>>)>>, <<"asks", Side(<<>>)>> >>),
            Dict(<< <<"bids", Side(<<Level1>>)>>, <<"asks", Side(<<Level2>>)>> >>),
            Dict(<< <<"bids", Side(<< Dict(<< <<"level", Integer(1)>> >>) >>)>>,
                    <<"asks", Side(<<Level2>>)>> >>),
            Dict(<< <<"asks", Side(<<Level2, Level1>>)>> >>),
            Dict(<< <<"bids", Dict(<< <<"depth_levels", List(<<Level1>>)>>,
                                      <<"volume_distribution", VolumeBuckets>> >>)>> >>)}
      [] k = "rankings" ->
           {None, Dict(<<>>), Dict(<< <<"top_performers", List(<<>>)>> >>),
            Dict(<< <<"top_performers", List(<<Performer1>>)>> >>),
            Dict(<< <<"top_performers", List(<<Performer2, Performer3>>)>> >>)}
      [] k = "metadata" ->
           {None, Dict(<< <<"symbols_processed", Integer(5)>> >>),
            Dict(<< <<"symbol", Str("BTCUSDT")>> >>),
            Dict(<< <<"data source", Str("x")>> >>)}
      [] k = "a" ->
           {Dict(<< <<"b", Integer(1)>>, <<"c", List(<<Integer(1), Integer(2)>>)>> >>),
            List(<< Dict(<< <<"b", Integer(1)>> >>), Integer(2), List(<<Integer(1), Integer(2)>>) >>),
            Dict(<< <<"b", Integer(1)>> >>),
            List(<<Integer(1)>>),
            List(<<None, Str("x")>>)}
      [] k = "a_b" -> {Integer(2)}
      [] k = "a_0" -> {Integer(2)}
      [] k = "" -> {Dict(<< <<"b", Integer(1)>> >>)}
      [] k = "b" -> {None, Integer(1), Str("x"), Bool(TRUE)}

\* The entry lists that use the keys TopKeys[i].. in order, at most n of them.
RECURSIVE Entries(_, _)
Entries(i, n) ==
    IF i > Len(TopKeys) \/ n = 0 THEN {<<>>}
    ELSE Entries(i + 1, n)
         \cup {<< <<TopKeys[i], v>> >> \o rest :
                 v \in Pool(TopKeys[i]), rest \in Entries(i + 1, n - 1)}

Reverse(s) == [i \in 1..Len(s) |-> s[Len(s) + 1 - i]]

\* Complete results, as the tests of the serializers pass them.
Samples ==
    { Dict(<< <<"test", Str("data")>> >>),
      Dict(<< <<"test", Str("value")>>, <<"number", Integer(123)>>,
              <<"nested", Dict(<< <<"key", Str("value")>>,
                                  <<"include_volume", Bool(FALSE)>> >>)>> >>),
      Dict(<< <<"summary", Dict(<< <<"total_symbols", Integer(5)>>,
                                   <<"avg_price_change_percent", Float(25)>>,
                                   <<"avg_volatility", Float(100)>> >>)>>,
              <<"rankings", Dict(<< <<"top_performers", List(<<Performer1>>)>> >>)>>,
              <<"market_analysis", Dict(<< <<"sentiment", Str("bullish")>>,
                                           <<"sentiment_strength", Float(750)>>,
                                           <<"market_regime", Str("trending_up")>>,
                                           <<"uniformity", Str("high")>> >>)>>,
              <<"metadata", Dict(<< <<"symbols_processed", Integer(5)>> >>)>> >>) }

Trees ==
    {Dict(kv) : kv \in Entries(1, MaxTop)}
    \cup {Dict(Reverse(kv)) : kv \in Entries(1, MaxTop)}
    \cup Samples

(***************************************************************************)
(* The state machine: one request for one tree.                            *)
(***************************************************************************)
NoOutput == [kind |-> "none"]

\* No thread draws a chart.
NoPyplot == figs = <<>> /\ callers = <<>>

\* No call of the analysis API is made.
NoApi ==
    /\ client = [api |-> "none"]
    /\ request = [op |-> "none"]
    /\ response = [t |-> "unset"]

\* No serialize() call of the instance has ended before the last one.
NoCall == [called |-> FALSE]

\* How a serialize() call ended: what it returned or what it raised.
Outcome(o, e) == [called |-> TRUE, out |-> o, err |-> e]

\* The generation time taken from the clock when serialize() is called.
SelfTimestampAtCall(held, now) == now

\* self.timestamp as serialize() reads it: the value __init__ stored in the
\* instance; the time of the call plays no part.
SelfTimestamp(held, now) == held

Init ==
    /\ data \in Trees
    /\ fmt = ""
    /\ ser = "None"
    /\ timestamp = ""
    /\ pc = "start"
    /\ path = ""
    /\ out = NoOutput
    /\ err = ""
    /\ prev = NoCall
    /\ content_type = ""
    /\ NoPyplot
    /\ NoApi

\* get_serializer(data, format_type): the serializer of the format is
\* constructed on the tree, or ValueError is raised.
GetSerializer(f, now) ==
    /\ pc = "start"
    /\ fmt' = f
    /\ IF f \notin DOMAIN Serializers
       THEN /\ err' = "ValueError: Unsupported format: " \o f
            /\ pc' = "rejected"
            /\ UNCHANGED <<ser, timestamp>>
       ELSE /\ ser' = Serializers[f]
            /\ timestamp' = now
            /\ pc' = "constructed"
            /\ err' = ""
    /\ UNCHANGED <<data, path, out, prev, content_type, pyplot_vars, api_vars>>

\* A tree into which serialize() has stored the generation time.
TreeAfterStamped(d, ts) == Dict(d.kv \o << <<"timestamp", Str(ts)>> >>)

\* self.data after serialize(): the serializers read the tree (in, [], get,
\* items, iteration, slices that copy, ** unpacking into a new mapping) and
\* assign to no part of it.
TreeAfter(d, ts) == d

\* An instance that get_serializer returned: serialize() may be called on
\* it, any number of times.
Constructed == pc \in {"constructed", "returned", "raised"}

\* The end of a serialize() call: it returns its output or raises.  No call
\* changes the instance (self.data, self.timestamp).
Finish(kind, p, r) ==
    /\ path' = p
    /\ prev' = IF pc = "constructed" THEN NoCall ELSE Outcome(out, err)
    /\ IF r.ok
       THEN out' = [kind |-> kind, body |-> r.val] /\ err' = "" /\ pc' = "returned"
       ELSE out' = NoOutput /\ err' = r.err /\ pc' = "raised"
    /\ data' = TreeAfter(data, timestamp)
    /\ UNCHANGED <<fmt, ser, timestamp, content_type, pyplot_vars, api_vars>>

SerializeJSON ==
    /\ Constructed /\ ser = "JSONSerializer"
    /\ Finish("json", "json", JSONSerialize(data))

SerializeCSV ==
    /\ Constructed /\ ser = "CSVSerializer"
    /\ Finish("csv", CSVPath(data), CSVSerialize(data))

SerializeHTML(now) ==
    /\ Constructed /\ ser = "HTMLSerializer"
    /\ Finish("html", HTMLPath(data),
              HTMLSerialize(data, SelfTimestamp(timestamp, now)))

SerializeXML(now) ==
    /\ Constructed /\ ser = "XMLSerializer"
    /\ Finish("xml", "xml", XMLSerialize(data, SelfTimestamp(timestamp, now)))

SerializeChart ==
    /\ Constructed /\ ser = "ChartSerializer"
    /\ Finish("chart", ChartPath(data), ChartSerialize(data))

Next ==
    \/ \E f \in Formats, now \in Clock : GetSerializer(f, now)
    \/ SerializeJSON
    \/ SerializeCSV
    \/ \E now \in Clock : SerializeHTML(now)
    \/ \E now \in Clock : SerializeXML(now)
    \/ SerializeChart

Spec == Init /\ [][Next]_vars

\* serializer.get_content_type() on an instance get_serializer returned.
GetContentType ==
    /\ Constructed
    /\ content_type' = ContentType[ser]
    /\ UNCHANGED <<data, fmt, ser, timestamp, pc, path, out, err, prev,
                   pyplot_vars, api_vars>>

\* A caller that asks a new serializer for its content type.
NextContentType ==
    \/ \E f \in Formats, now \in Clock : GetSerializer(f, now)
    \/ GetContentType

SpecContentType == Init /\ [][NextContentType]_vars

\* A caller of the JSON format alone: get_serializer(data, "json") and then
\* serialize on the instance.
NextJSON ==
    \/ \E now \in Clock : GetSerializer("json", now)
    \/ SerializeJSON

SpecJSON == Init /\ [][NextJSON]_vars

(***************************************************************************)
(* ChartSerializer.serialize statement by statement, run by several        *)
(* threads on trees of their own.  pyplot keeps one registry of figures    *)
(* for the process; tight_layout, savefig and close take no figure and act *)
(* on the current one, the figure registered last.                         *)
(***************************************************************************)

\* Number of threads that call serialize().
MaxCallers == 2

Callers == 1..MaxCallers

\* The trees the callers serialize: a price series, a tree of no chart
\* shape, and a matrix tree without raw_matrix.
ChartTrees ==
    { Dict(<< <<"time_series_data", List(<<Candle1, Candle2>>)>> >>),
      Dict(<< <<"test", Str("data")>> >>),
      Dict(<< <<"correlation_matrix", Dict(<<>>)>> >>) }

\* No request is served by the single serializer of Spec.
NoSerializer ==
    /\ data = Dict(<<>>) /\ fmt = "" /\ ser = "None" /\ timestamp = ""
    /\ pc = "unused" /\ path = "" /\ out = NoOutput /\ err = "" /\ prev = NoCall
    /\ content_type = ""

\* A thread about to call serialize() on the chart serializer of tree d.
Caller(d) ==
    [pc |-> "ready", data |-> d, drawn |-> Image("blank", ""),
     img_buffer |-> NoOutput, out |-> NoOutput, err |-> ""]

InitConcurrent ==
    /\ callers \in [Callers -> {Caller(d) : d \in ChartTrees}]
    /\ figs = <<>>
    /\ NoSerializer
    /\ NoApi

\* What is drawn on the figure that caller c created; figure 0 is the empty
\* figure gcf() makes when none is registered.
Drawn(c) == IF c = 0 THEN Image("blank", "") ELSE callers[c].drawn

\* fig, ax = plt.subplots(figsize=(12, 8)): a new figure is registered and
\* becomes the current one.
Subplots(c) ==
    /\ callers[c].pc = "ready"
    /\ figs' = Append(figs, c)
    /\ callers' = [callers EXCEPT ![c].pc = "subplots"]
    /\ UNCHANGED <<serializer_vars, api_vars>>

\* The dispatch and the helper it calls: they draw on the caller's own axes,
\* or raise, and then the figure stays registered.
Draw(c) ==
    /\ callers[c].pc = "subplots"
    /\ LET r == ChartSerialize(callers[c].data) IN
       callers' = IF r.ok
                  THEN [callers EXCEPT ![c].drawn = r.val, ![c].pc = "drawn"]
                  ELSE [callers EXCEPT ![c].err = r.err, ![c].pc = "raised"]
    /\ UNCHANGED <<figs, serializer_vars, api_vars>>

\* plt.tight_layout(); plt.savefig(img_buffer, ...): the current figure is
\* written to the caller's buffer.
Savefig(c) ==
    /\ callers[c].pc = "drawn"
    /\ figs' = IF Len(figs) = 0 THEN <<0>> ELSE figs
    /\ callers' = [callers EXCEPT
                     ![c].img_buffer = IF Len(figs) = 0 THEN Drawn(0)
                                       ELSE Drawn(figs[Len(figs)]),
                     ![c].pc = "saved"]
    /\ UNCHANGED <<serializer_vars, api_vars>>

\* plt.close(); return img_buffer.getvalue(): the current figure leaves the
\* registry.
Close(c) ==
    /\ callers[c].pc = "saved"
    /\ figs' = IF Len(figs) = 0 THEN figs ELSE SubSeq(figs, 1, Len(figs) - 1)
    /\ callers' = [callers EXCEPT ![c].out = callers[c].img_buffer,
                                  ![c].pc = "returned"]
    /\ UNCHANGED <<serializer_vars, api_vars>>

NextConcurrent ==
    \E c \in Callers :
        \/ Subplots(c)
        \/ Draw(c)
        \/ Savefig(c)
        \/ Close(c)

SpecConcurrent == InitConcurrent /\ [][NextConcurrent]_vars

(***************************************************************************)
(* BinanceAnalyzer and the chart endpoint.  A call draws the replies of    *)
(* the exchange client; client holds the replies given, request the call   *)
(* and response what it returned.  Prices, quantities and percentages are  *)
(* held in tenths; a quotient is taken to the tenth.                       *)
(***************************************************************************)

\* No call has been made.  The analyzer keeps nothing between calls (it only
\* reads its client), so a behaviour is one call.
Idle == request.op = "none"

\* An error result with a summary key beside the message.
ErrorResultWithSummary(message) ==
    Dict(<< <<"error", Str(message)>>, <<"summary", None>> >>)

\* return {"error": message}
ErrorResult(message) == Dict(<< <<"error", Str(message)>> >>)

\* The symbols a request names, and the list a request without symbols gets.
Symbols == {"BTCUSDT", "ETHUSDT"}
DefaultSymbols == <<"BTCUSDT", "ETHUSDT", "BNBUSDT", "ADAUSDT", "XRPUSDT">>

MaxSymbols == 2

\* The symbols argument: None, or a list of symbols.
SymbolArgs ==
    {None} \cup UNION {{List([i \in 1..n |-> Str(l[i])]) : l \in [1..n -> Symbols]} :
                         n \in 0..MaxSymbols}

Requested(symbols, defaults) ==
    IF symbols.t = "none" THEN defaults
    ELSE [i \in 1..Len(symbols.el) |-> symbols.el[i].s]

\* client.ticker_24hr(symbol=symbol): the exchange's ticker, or an exception.
\* The third ticker is that of a symbol without a trade in the last 24 hours.
TickerReplies ==
    LET Ticker(change, high, low, volume) ==
            [priceChangePercent |-> change, highPrice |-> high, lowPrice |-> low,
             volume |-> volume]
    IN {Raise("ClientError"), Ok(Ticker(15, 200, 100, 5000)),
        Ok(Ticker(-10, 200, 200, 1000)), Ok(Ticker(0, 0, 0, 0))}

\* The elements of a set of integers, in rising order.
Ascending(S) ==
    [j \in 1..Cardinality(S) |->
        CHOOSE i \in S : Cardinality({h \in S : h <= i}) = j]

\* sum(xs)
RECURSIVE SumOf(_)
SumOf(xs) == IF Len(xs) = 0 THEN 0 ELSE Head(xs) + SumOf(Tail(xs))

\* BinanceAnalyzer.get_market_statistics
get_market_statistics(symbols, include_volume, replies, now) ==
    LET requested == Requested(symbols, DefaultSymbols)
        \* ticker_data: a symbol whose fetch or conversion raises is skipped;
        \* the volatility divides by the low price
        Kept(i) == replies[i].ok /\ replies[i].val.lowPrice # 0
        Row(i) ==
            LET t == replies[i].val IN
            [symbol |-> requested[i], price_change_percent |-> t.priceChangePercent,
             volume |-> t.volume,
             volatility |-> ((t.highPrice - t.lowPrice) * 1000) \div t.lowPrice]
        kept == Ascending({i \in 1..Len(requested) : Kept(i)})
        df == [j \in 1..Len(kept) |-> Row(kept[j])]
        \* df.nlargest(k, column): the rows by falling value, the earlier row
        \* first among equal values; the values are those of the rows
        RECURSIVE NLargest(_, _, _)
        NLargest(rows, values, k) ==
            IF k = 0 \/ Len(rows) = 0 THEN <<>>
            ELSE LET i == CHOOSE i \in 1..Len(rows) :
                             /\ \A j \in 1..Len(rows) : values[j] <= values[i]
                             /\ \A j \in 1..(i - 1) : values[j] < values[i]
                     Without(xs) == SubSeq(xs, 1, i - 1) \o SubSeq(xs, i + 1, Len(xs))
                 IN <<rows[i]>> \o NLargest(Without(rows), Without(values), k - 1)
        n == Len(df)
        change == [i \in 1..n |-> df[i].price_change_percent]
        volatility == [i \in 1..n |-> df[i].volatility]
        Mean(xs) == SumOf(xs) \div n
        Extreme(xs, sign) ==
            CHOOSE x \in {xs[i] : i \in 1..n} :
                \A i \in 1..n : sign * xs[i] <= sign * x
        Records(rows, column) ==
            List([i \in 1..Len(rows) |->
                    Dict(<< <<"symbol", Str(rows[i].symbol)>>,
                            <<column, Float(rows[i][column])>> >>)])
        \* std() of one row is NaN, and NaN < 2 is false
        Uniform ==
            /\ n > 1
            /\ n * SumOf([i \in 1..n |-> change[i] * change[i]])
                   - SumOf(change) * SumOf(change) < 400 * n * (n - 1)
    IN IF n = 0
       THEN ErrorResult("No data available for any symbols")
       ELSE Dict(<<
         <<"metadata", Dict(<<
             <<"timestamp", Str(now)>>,
             <<"symbols_requested", List([i \in 1..Len(requested) |-> Str(requested[i])])>>,
             <<"symbols_processed", Integer(n)>>,
             <<"include_volume", Bool(include_volume)>> >>)>>,
         <<"summary", Dict(<<
             <<"total_symbols", Integer(n)>>,
             <<"avg_price_change_percent", Float(Mean(change))>>,
             <<"avg_volatility", Float(Mean(volatility))>>,
             <<"max_volatility", Float(Extreme(volatility, 1))>>,
             <<"min_volatility", Float(Extreme(volatility, -1))>>,
             <<"total_volume",
               IF include_volume
               THEN Float(SumOf([i \in 1..n |-> df[i].volume])) ELSE None>> >>)>>,
         <<"rankings", Dict(<<
             <<"top_performers",
               Records(NLargest(df, change, 3), "price_change_percent")>>,
             <<"worst_performers",
               Records(NLargest(df, [i \in 1..n |-> -change[i]], 3),
                       "price_change_percent")>>,
             <<"most_volatile",
               Records(NLargest(df, volatility, 3), "volatility")>> >>)>>,
         <<"market_analysis", Dict(<<
             <<"sentiment", Str(IF Mean(change) > 0 THEN "bullish" ELSE "bearish")>>,
             <<"sentiment_strength",
               Float(IF Mean(change) < 0 THEN -Mean(change) ELSE Mean(change))>>,
             <<"market_regime",
               Str(IF Mean(volatility) > 50 THEN "high_volatility"
                   ELSE "normal_volatility")>>,
             <<"uniformity", Str(IF Uniform THEN "uniform" ELSE "divergent")>> >>)>> >>)

\* analyzer.get_market_statistics(symbols, include_volume), the client
\* answering each ticker request in turn.
GetMarketStatistics ==
    /\ Idle
    /\ \E symbols \in SymbolArgs, include_volume \in BOOLEAN, now \in Clock :
        \E replies \in [1..Len(Requested(symbols, DefaultSymbols)) -> TickerReplies] :
            /\ client' = [api |-> "ticker_24hr", replies |-> replies]
            /\ request' = [op |-> "get_market_statistics", symbols |-> symbols,
                           include_volume |-> include_volume]
            /\ response' = get_market_statistics(symbols, include_volume, replies, now)
            /\ UNCHANGED <<serializer_vars, pyplot_vars>>

\* client.klines(symbol, interval, limit): candles of open time (ms), close
\* and volume, or an exception.  The series of the model are shorter than
\* every rolling window (14, 20 and 50 rows) and of one close price, so the
\* rolling values are NaN and the MACD lines are 0.
KlineReplies ==
    LET Kline(open_time, close, volume) ==
            [open_time |-> open_time, close |-> close, volume |-> volume]
    IN {Raise("ClientError"), Ok(<<>>), Ok(<<Kline("1704067200000", 1000, 50)>>),
        Ok(<<Kline("1704067200000", 1000, 50), Kline("1704070800000", 1000, 70)>>)}

\* BinanceAnalyzer.get_technical_analysis
get_technical_analysis(symbol, interval, reply, now) ==
    LET Failed(e) == ErrorResult("Failed to fetch technical analysis: " \o e)
        \* pd.to_datetime(timestamp, unit="ms").isoformat()
        IsoFormat ==
            ("1704067200000" :> "2024-01-01T00:00:00")
            @@ ("1704070800000" :> "2024-01-01T01:00:00")
        df == reply.val
        latest_data == df[Len(df)]
    IN IF ~reply.ok THEN Failed(reply.err)
       ELSE IF Len(df) = 0 THEN Failed("IndexError")
       ELSE Dict(<<
         <<"metadata", Dict(<<
             <<"symbol", Str(symbol)>>, <<"interval", Str(interval)>>,
             <<"data_points", Integer(Len(df))>>, <<"timestamp", Str(now)>> >>)>>,
         <<"current_state", Dict(<<
             <<"latest_price", Float(latest_data.close)>>,
             <<"volume", Float(latest_data.volume)>>,
             <<"price_change_24h", None>> >>)>>,
         <<"indicators", Dict(<<
             <<"moving_averages", Dict(<< <<"sma_20", None>>, <<"sma_50", None>> >>)>>,
             <<"oscillators", Dict(<< <<"rsi", None>>, <<"rsi_signal", Str("neutral")>> >>)>>,
             <<"bollinger_bands", Dict(<<
                 <<"upper", None>>, <<"middle", None>>, <<"lower", None>>,
                 <<"position", Str("within_bands")>> >>)>>,
             <<"macd", Dict(<<
                 <<"macd", Float(0)>>, <<"signal", Float(0)>>,
                 <<"histogram", Float(0)>> >>)>> >>)>>,
         <<"trend_analysis", Dict(<<
             <<"short_term_trend", Str("downward")>>,
             <<"long_term_trend", Str("downward")>>,
             <<"volatility_regime", Str("normal")>> >>)>>,
         <<"time_series_data", List([i \in 1..Len(df) |-> Dict(<<
             <<"timestamp", Str(IsoFormat[df[i].open_time])>>,
             <<"close", Float(df[i].close)>>, <<"volume", Float(df[i].volume)>>,
             <<"sma_20", None>>, <<"rsi", None>> >>)])>> >>)

\* analyzer.get_technical_analysis(symbol, interval)
GetTechnicalAnalysis ==
    /\ Idle
    /\ \E symbol \in Symbols, reply \in KlineReplies, now \in Clock :
        /\ client' = [api |-> "klines", replies |-> <<reply>>]
        /\ request' = [op |-> "get_technical_analysis", symbol |-> symbol,
                       interval |-> "1h"]
        /\ response' = get_technical_analysis(symbol, "1h", reply, now)
        /\ UNCHANGED <<serializer_vars, pyplot_vars>>

DefaultCorrelationSymbols ==
    <<"BTCUSDT", "ETHUSDT", "BNBUSDT", "ADAUSDT", "XRPUSDT", "DOTUSDT", "LINKUSDT">>

\* client.klines(symbol, interval="1d", limit=days): the closing prices of
\* three days, or an exception.  Three prices give two returns, so that the
\* correlation of two series is 1 or -1: the returns of the first series
\* rise, those of the second fall.
CloseReplies ==
    {Raise("ClientError"), Ok(<<1000, 1100, 1320>>), Ok(<<1000, 1100, 1100>>)}

\* BinanceAnalyzer.get_correlation_analysis
get_correlation_analysis(symbols, days, include_clusters, replies, now) ==
    LET requested == Requested(symbols, DefaultCorrelationSymbols)
        \* symbol.replace("USDT", "")
        Asset ==
            [s \in {DefaultCorrelationSymbols[i] : i \in DOMAIN DefaultCorrelationSymbols} |->
                CASE s = "BTCUSDT" -> "BTC" [] s = "ETHUSDT" -> "ETH"
                  [] s = "BNBUSDT" -> "BNB" [] s = "ADAUSDT" -> "ADA"
                  [] s = "XRPUSDT" -> "XRP" [] s = "DOTUSDT" -> "DOT"
                  [] s = "LINKUSDT" -> "LINK"]
        \* whether the second return of a series is above its first (1) or
        \* below it (-1)
        Turn(prices) ==
            IF prices[3] * prices[1] > prices[2] * prices[2] THEN 1 ELSE -1
        fetched == {i \in 1..Len(requested) : replies[i].ok}
        successful == Ascending(fetched)
        \* price_data: a key stays where it was first set and holds the last
        \* value set
        first == Ascending({i \in fetched :
                     \A h \in fetched : requested[h] = requested[i] => i <= h})
        Last(i) == CHOOSE h \in fetched :
                      /\ requested[h] = requested[i]
                      /\ \A g \in fetched : requested[g] = requested[i] => g <= h
        k == Len(first)
        column == [i \in 1..k |-> Asset[requested[first[i]]]]
        turn == [i \in 1..k |-> Turn(replies[Last(first[i])].val)]
        \* correlation_matrix.iloc[i, j], in tenths
        Corr(i, j) == 10 * turn[i] * turn[j]
        \* the pairs i < j, row by row, each as i * (k + 1) + j
        codes == Ascending({c \in 1..((k + 1) * (k + 1)) :
                              /\ c \div (k + 1) \in 1..k
                              /\ c % (k + 1) \in 1..k
                              /\ c \div (k + 1) < c % (k + 1)})
        Pair(code) ==
            LET i == code \div (k + 1)
                j == code % (k + 1)
            IN Dict(<< <<"pair", Str(column[i] \o "-" \o column[j])>>,
                       <<"asset_1", Str(column[i])>>, <<"asset_2", Str(column[j])>>,
                       <<"correlation", Float(Corr(i, j))>> >>)
        \* the sort by falling absolute value keeps the order: all are 1
        corr_pairs == [p \in 1..Len(codes) |-> Pair(codes[p])]
        Positive(p) == Get(p, "correlation").m > 0
        Negative(p) == Get(p, "correlation").m < 0
        FirstFive(ps) == SubSeq(ps, 1, IF Len(ps) < 5 THEN Len(ps) ELSE 5)
        LastFive(ps) == SubSeq(ps, IF Len(ps) < 5 THEN 1 ELSE Len(ps) - 4, Len(ps))
        total == SumOf([i \in 1..k |-> turn[i]]) * SumOf([i \in 1..k |-> turn[i]])
        size == k * k
        avg_correlation == (10 * total) \div size
        Above(tenths) == 10 * total > tenths * size
        Root(v) == CHOOSE r \in 0..20 : r * r <= v /\ v < (r + 1) * (r + 1)
    IN IF k < 2
       THEN ErrorResult("Insufficient data for correlation analysis")
       ELSE Dict(
         << <<"metadata", Dict(<<
                <<"analysis_period_days", Integer(days)>>,
                <<"symbols_requested",
                  List([i \in 1..Len(requested) |-> Str(requested[i])])>>,
                <<"symbols_analyzed", List([i \in 1..k |-> Str(column[i])])>>,
                <<"successful_symbols",
                  List([i \in 1..Len(successful) |-> Str(requested[successful[i]])])>>,
                <<"timestamp", Str(now)>>,
                <<"include_clusters", Bool(include_clusters)>> >>)>>,
            <<"correlation_matrix", Dict(<<
                <<"raw_matrix",
                  Dict([j \in 1..k |-> <<column[j],
                          Dict([i \in 1..k |-> <<column[i], Float(Corr(i, j))>>])>>])>>,
                <<"matrix_size", Str(IntStr(k) \o "x" \o IntStr(k))>>,
                <<"matrix_values",
                  List([c \in 1..size |->
                     LET i == ((c - 1) \div k) + 1
                         j == ((c - 1) % k) + 1
                     IN Dict(<< <<"row_asset", Str(column[i])>>,
                                <<"col_asset", Str(column[j])>>,
                                <<"correlation", Float(Corr(i, j))>> >>)])>> >>)>>,
            <<"correlation_rankings", Dict(<<
                <<"highest_positive", List(FirstFive(SelectSeq(corr_pairs, Positive)))>>,
                <<"highest_negative", List(LastFive(SelectSeq(corr_pairs, Negative)))>>,
                <<"most_extreme", List(FirstFive(corr_pairs))>> >>)>>,
            <<"portfolio_metrics", Dict(<<
                <<"average_correlation", Float(avg_correlation)>>,
                <<"diversification_score", Float(10 - avg_correlation)>>,
                <<"max_correlation", Float(10)>>,
                <<"min_correlation",
                  Float(IF \E i \in 1..k : turn[i] # turn[1] THEN -10 ELSE 10)>>,
                <<"correlation_std",
                  Float(Root((100 * (size * size - total * total))
                             \div (size * (size - 1))))>> >>)>>,
            <<"market_regime_analysis", Dict(<<
                <<"regime",
                  Str(IF Above(8) THEN "highly_correlated"
                      ELSE IF Above(5) THEN "moderately_correlated" ELSE "diversified")>>,
                <<"diversification_quality",
                  Str(IF Above(8) THEN "poor" ELSE IF Above(5) THEN "moderate" ELSE "good")>>,
                <<"systemic_risk",
                  Str(IF Above(7) THEN "high"
                      ELSE IF Above(4) THEN "moderate" ELSE "low")>> >>)>> >>
         \o IF include_clusters
            THEN << <<"risk_clusters", Dict(<<
                      <<"high_correlation_cluster", List(SelectSeq(corr_pairs, Positive))>>,
                      <<"moderate_correlation_cluster", List(<<>>)>>,
                      <<"low_correlation_cluster", List(<<>>)>>,
                      <<"negative_correlation_cluster",
                        List(SelectSeq(corr_pairs, Negative))>> >>)>> >>
            ELSE <<>>)

\* analyzer.get_correlation_analysis(symbols, days, include_clusters), the
\* client answering each klines request in turn.
GetCorrelationAnalysis ==
    /\ Idle
    /\ \E symbols \in SymbolArgs, include_clusters \in BOOLEAN, now \in Clock :
        \E replies \in [1..Len(Requested(symbols, DefaultCorrelationSymbols))
                          -> CloseReplies] :
            /\ client' = [api |-> "klines", replies |-> replies]
            /\ request' = [op |-> "get_correlation_analysis", symbols |-> symbols,
                           days |-> 30, include_clusters |-> include_clusters]
            /\ response' = get_correlation_analysis(symbols, 30, include_clusters,
                                                    replies, now)
            /\ UNCHANGED <<serializer_vars, pyplot_vars>>

\* The levels calculate_depth_metrics walks: orders[:20] with include_levels,
\* orders[:5] without.
DepthCap == 20
SummaryCap == 5

MaxBook == 2

\* One side of the book: a few orders, each a price and a quantity, or
\* more orders than are walked.  One order is empty, one is 5% and more away
\* from the reference price of the model.
BookSides ==
    LET Orders == {<<990, 600>>, <<1010, 0>>, <<1100, 5000>>}
    IN UNION {[1..n -> Orders] : n \in 0..MaxBook}
       \cup {[i \in 1..(DepthCap + MaxBook) |-> <<990 - i, 10 * i>>]}

\* client.depth(symbol, limit) and client.ticker_price(symbol): the book and
\* the reference price, or an exception.
DepthReplies ==
    {<<Raise("ClientError"), Ok(1000)>>}
    \cup {<<Ok([bids |-> b, asks |-> a]), price>> :
            b \in BookSides, a \in BookSides, price \in {Ok(0), Ok(1000)}}

\* A number that is the int 0 until a float has been added to it.
FloatOrZero(added, m) == IF added THEN Float(m) ELSE Integer(0)

Distance(a, b) == IF a < b THEN b - a ELSE a - b

\* cumulative_volume at the i-th order: its own quantity counted alone.
CumulativeVolumeOwn(quantities, i) == quantities[i]

\* cumulative_volume += qty, at the i-th order.
CumulativeVolume(quantities, i) == SumOf(SubSeq(quantities, 1, i))

\* calculate_depth_metrics(orders, is_bid): raises when an order is
\* measured against a reference price of 0.
calculate_depth_metrics(orders, include_levels, current_price) ==
    LET n == Len(orders)
        price == [i \in 1..n |-> orders[i][1]]
        qty == [i \in 1..n |-> orders[i][2]]
        total_volume == SumOf(qty)
        cap == IF include_levels THEN DepthCap ELSE SummaryCap
        walked == IF n < cap THEN n ELSE cap
        \* the bucket of the i-th order: abs(price - current_price)
        \* / current_price * 100 against 1, 2 and 5
        Bucket(i) ==
            LET d == 100 * Distance(price[i], current_price) IN
            IF d <= current_price THEN "0-1%"
            ELSE IF d <= 2 * current_price THEN "1-2%"
            ELSE IF d <= 5 * current_price THEN "2-5%" ELSE "5%+"
        In(b) == {i \in 1..walked : Bucket(i) = b}
        Volume(b) == SumOf([j \in 1..Cardinality(In(b)) |-> qty[Ascending(In(b))[j]]])
        volume_buckets ==
            Dict([j \in 1..4 |->
                LET b == <<"0-1%", "1-2%", "2-5%", "5%+">>[j]
                IN <<b, FloatOrZero(In(b) # {}, Volume(b))>>])
        Level(i) ==
            Dict(<< <<"level", Integer(i)>>,
                    <<"price", Float(price[i])>>,
                    <<"quantity", Float(qty[i])>>,
                    <<"cumulative_volume", Float(CumulativeVolume(qty, i))>>,
                    <<"price_distance_percent",
                      Float((1000 * Distance(price[i], current_price))
                            \div current_price)>>,
                    <<"value_usd", Float((price[i] * qty[i]) \div 10)>> >>)
    IN IF n = 0
       THEN Ok(Dict(<< <<"total_volume", Integer(0)>>,
                       <<"weighted_avg_price", Integer(0)>>,
                       <<"depth_levels", List(<<>>)>>,
                       <<"volume_distribution", Dict(<<>>)>> >>))
       ELSE IF current_price = 0 THEN Raise("float division by zero")
       ELSE Ok(Dict(<<
         <<"total_volume", Float(total_volume)>>,
         <<"weighted_avg_price",
           FloatOrZero(total_volume > 0,
                       IF total_volume > 0
                       THEN SumOf([i \in 1..n |-> price[i] * qty[i]]) \div total_volume
                       ELSE 0)>>,
         <<"depth_levels",
           List(IF include_levels THEN [i \in 1..walked |-> Level(i)] ELSE <<>>)>>,
         <<"volume_distribution", volume_buckets>>,
         <<"concentration_ratio",
           FloatOrZero(total_volume > 0,
                       IF total_volume > 0
                       THEN (10 * Volume("0-1%")) \div total_volume ELSE 0)>> >>))

\* volume_to_take when the whole order is taken.
VolumeToTakeAll(qty, remaining) == qty

\* volume_to_take = min(qty, volume_target - cumulative_volume)
VolumeToTake(qty, remaining) == IF qty < remaining THEN qty ELSE remaining

\* The loop of estimate_price_impact from cumulative_volume on: what it takes
\* from each order it reaches, until the target is met or the orders end.
RECURSIVE Takes(_, _, _)
Takes(volume_target, orders, cumulative_volume) ==
    IF Len(orders) = 0 \/ cumulative_volume >= volume_target THEN <<>>
    ELSE LET volume_to_take ==
                 VolumeToTake(Head(orders)[2], volume_target - cumulative_volume)
         IN <<volume_to_take>>
            \o Takes(volume_target, Tail(orders), cumulative_volume + volume_to_take)

\* estimate_price_impact(volume_target, orders)
estimate_price_impact(volume_target, orders, current_price) ==
    LET takes == Takes(volume_target, orders, 0)
        cumulative_volume == SumOf(takes)
        total_cost == SumOf([i \in 1..Len(takes) |-> orders[i][1] * takes[i]])
        avg_price == total_cost \div cumulative_volume
    IN IF cumulative_volume > 0
       THEN Dict(<< <<"avg_price", Float(avg_price)>>,
                    <<"impact_percent",
                      Float((1000 * Distance(avg_price, current_price))
                            \div current_price)>> >>)
       ELSE Dict(<< <<"avg_price", None>>, <<"impact_percent", None>> >>)

\* trade_sizes, in base currency
trade_sizes == <<100, 1000, 10000>>

\* BinanceAnalyzer.get_liquidity_analysis
get_liquidity_analysis(symbol, depth_limit, include_levels, replies, now) ==
    LET Failed(e) == ErrorResult("Failed to analyze liquidity: " \o e)
        \* float("inf")
        Infinity == [t |-> "float", inf |-> TRUE]
        bids == replies[1].val.bids
        asks == replies[1].val.asks
        current_price == replies[2].val
        best_bid == IF Len(bids) > 0 THEN bids[1][1] ELSE 0
        best_ask == IF Len(asks) > 0 THEN asks[1][1] ELSE 0
        quoted == Len(bids) > 0 \/ Len(asks) > 0
        spread == best_ask - best_bid
        bid_metrics == calculate_depth_metrics(bids, include_levels, current_price)
        ask_metrics == calculate_depth_metrics(asks, include_levels, current_price)
        bid_volume == Get(bid_metrics.val, "total_volume")
        ask_volume == Get(ask_metrics.val, "total_volume")
        bid_total == IF bid_volume.t = "int" THEN 0 ELSE bid_volume.m
        ask_total == IF ask_volume.t = "int" THEN 0 ELSE ask_volume.m
        total_liquidity == bid_total + ask_total
        \* min(100, total_liquidity / 1000), total_liquidity in tenths
        liquidity_score ==
            IF total_liquidity \div 1000 > 1000 THEN 1000 ELSE total_liquidity \div 1000
        imbalance ==
            IF total_liquidity > 0
            THEN (10 * (bid_total - ask_total)) \div total_liquidity ELSE 0
        Concentration(metrics) == GetOr(metrics.val, "concentration_ratio", Integer(0))
        Ratio(c) == IF c.t = "int" THEN 0 ELSE c.m
        Impact(size) ==
            <<"volume_" \o IntStr(size), Dict(<<
                <<"buy_impact", estimate_price_impact(10 * size, asks, current_price)>>,
                <<"sell_impact", estimate_price_impact(10 * size, bids, current_price)>> >>)>>
    IN IF ~replies[1].ok THEN Failed(replies[1].err)
       ELSE IF ~replies[2].ok THEN Failed(replies[2].err)
       ELSE IF ~bid_metrics.ok THEN Failed(bid_metrics.err)
       ELSE IF ~ask_metrics.ok THEN Failed(ask_metrics.err)
       ELSE Dict(<<
         <<"metadata", Dict(<<
             <<"symbol", Str(symbol)>>, <<"timestamp", Str(now)>>,
             <<"depth_limit", Integer(depth_limit)>>,
             <<"include_levels", Bool(include_levels)>>,
             <<"current_price", Float(current_price)>> >>)>>,
         <<"spread_analysis", Dict(<<
             <<"best_bid", FloatOrZero(Len(bids) > 0, best_bid)>>,
             <<"best_ask", FloatOrZero(Len(asks) > 0, best_ask)>>,
             <<"spread", Dict(<<
                 <<"absolute", FloatOrZero(quoted, spread)>>,
                 <<"percent",
                   FloatOrZero(current_price > 0,
                               IF current_price > 0
                               THEN (1000 * spread) \div current_price ELSE 0)>>,
                 <<"classification",
                   Str(IF current_price = 0 \/ 2000 * spread < current_price THEN "tight"
                       ELSE IF 1000 * spread < current_price THEN "normal"
                       ELSE "wide")>> >>)>>,
             <<"midpoint",
               Float(IF best_bid > 0 /\ best_ask > 0
                     THEN (best_bid + best_ask) \div 2 ELSE current_price)>> >>)>>,
         <<"order_book_depth", Dict(<<
             <<"bids", Dict(bid_metrics.val.kv
                            \o << <<"side", Str("buy")>>,
                                  <<"price_levels", Integer(Len(bids))>> >>)>>,
             <<"asks", Dict(ask_metrics.val.kv
                            \o << <<"side", Str("sell")>>,
                                  <<"price_levels", Integer(Len(asks))>> >>)>>,
             <<"total_liquidity", FloatOrZero(quoted, total_liquidity)>>,
             <<"book_balance",
               Float(IF total_liquidity > 0
                     THEN (10 * bid_total) \div total_liquidity ELSE 5)>> >>)>>,
         <<"liquidity_metrics", Dict(<<
             <<"liquidity_score", Float(liquidity_score)>>,
             <<"market_imbalance", Float(imbalance)>>,
             <<"imbalance_direction",
               Str(IF total_liquidity > 0 /\ 10 * (bid_total - ask_total) > total_liquidity
                   THEN "buy_pressure"
                   ELSE IF total_liquidity > 0
                           /\ 10 * (bid_total - ask_total) < -total_liquidity
                   THEN "sell_pressure" ELSE "balanced")>>,
             <<"market_quality",
               Str(IF total_liquidity > 800000 THEN "excellent"
                   ELSE IF total_liquidity > 500000 THEN "good"
                   ELSE IF total_liquidity > 200000 THEN "fair" ELSE "poor")>>,
             <<"concentration_risk", Dict(<<
                 <<"bid_concentration", Concentration(bid_metrics)>>,
                 <<"ask_concentration", Concentration(ask_metrics)>>,
                 <<"overall_risk",
                   Str(IF Ratio(Concentration(bid_metrics)) > 7
                          \/ Ratio(Concentration(ask_metrics)) > 7
                       THEN "high" ELSE "moderate")>> >>)>> >>)>>,
         <<"price_impact_analysis",
           Dict([i \in 1..Len(trade_sizes) |-> Impact(trade_sizes[i])])>>,
         <<"market_microstructure", Dict(<<
             <<"bid_ask_ratio",
               IF ask_total > 0 THEN Float((10 * bid_total) \div ask_total)
               ELSE Infinity>>,
             <<"depth_asymmetry",
               Str(IF 10 * bid_total > 12 * ask_total THEN "bid_heavy"
                   ELSE IF 10 * ask_total > 12 * bid_total THEN "ask_heavy"
                   ELSE "balanced")>>,
             <<"market_state",
               Str(IF total_liquidity > 10000 THEN "liquid" ELSE "thin")>> >>)>> >>)

\* analyzer.get_liquidity_analysis(symbol, include_levels=...), the client
\* answering the depth and the ticker_price request.
GetLiquidityAnalysis ==
    /\ Idle
    /\ \E symbol \in Symbols, include_levels \in BOOLEAN, now \in Clock,
          replies \in DepthReplies :
        /\ client' = [api |-> "depth", replies |-> replies]
        /\ request' = [op |-> "get_liquidity_analysis", symbol |-> symbol,
                       include_levels |-> include_levels]
        /\ response' = get_liquidity_analysis(symbol, 100, include_levels, replies, now)
        /\ UNCHANGED <<serializer_vars, pyplot_vars>>

\* The replies the client gives during a chart request: those of the
\* analysis the request reaches, none when it reaches none.
ChartReplies(analysis_type, symbol, symbols) ==
    CASE analysis_type = "market" ->
           [1..Len(Requested(symbols, DefaultSymbols)) -> TickerReplies]
      [] analysis_type = "technical" /\ Truthy(symbol) -> {<<r>> : r \in KlineReplies}
      [] analysis_type = "correlation" ->
           [1..Len(Requested(symbols, DefaultCorrelationSymbols)) -> CloseReplies]
      [] analysis_type = "liquidity" /\ Truthy(symbol) -> DepthReplies
      [] OTHER -> {<<>>}

\* get_analysis_chart: every exception raised in its try block, the
\* HTTPException of a rejected request included, is caught by
\* `except Exception` and answered with status 500; detail is str(e) of the
\* exception caught, held here as the exception.
get_analysis_chart(analysis_type, symbol, symbols, replies, now) ==
    LET \* raise HTTPException(status_code=..., detail=...)
        HTTPException(status_code, detail) ==
            [exc |-> "HTTPException", status_code |-> status_code, detail |-> detail]
        result ==
            CASE analysis_type = "market" ->
                   Ok(get_market_statistics(symbols, TRUE, replies, now))
              [] analysis_type = "technical" ->
                   IF ~Truthy(symbol)
                   THEN Raise(HTTPException(400, "Symbol required for technical analysis"))
                   ELSE Ok(get_technical_analysis(symbol.s, "1h", replies[1], now))
              [] analysis_type = "correlation" ->
                   Ok(get_correlation_analysis(symbols, 30, TRUE, replies, now))
              [] analysis_type = "liquidity" ->
                   IF ~Truthy(symbol)
                   THEN Raise(HTTPException(400, "Symbol required for liquidity analysis"))
                   ELSE Ok(get_liquidity_analysis(symbol.s, 100, TRUE, replies, now))
              [] OTHER ->
                   Raise(HTTPException(400,
                       "Invalid analysis type. Use: market, technical, correlation, liquidity"))
        content == ChartSerialize(result.val)
        Caught(e) == [status_code |-> 500, detail |-> e]
    IN IF ~result.ok THEN Caught(result.err)
       ELSE IF HasKey(result.val, "error")
       THEN Caught(HTTPException(500, Get(result.val, "error").s))
       ELSE IF ~content.ok THEN Caught([exc |-> content.err])
       ELSE [status_code |-> 200, content |-> content.val,
             media_type |-> ContentType[Serializers["chart"]]]

\* GET /api/v1/charts/{analysis_type}, with one of the four analysis types
\* or another word; a query parameter the analysis does not read is left out
\* of the request.
GetAnalysisChart ==
    /\ Idle
    /\ \E analysis_type \in {"market", "technical", "correlation", "liquidity", "volume"},
          now \in Clock,
          symbol \in {None, Str("BTCUSDT")}, symbols \in SymbolArgs :
        /\ analysis_type \in {"market", "correlation"} => symbol = None
        /\ analysis_type \notin {"market", "correlation"} => symbols = None
        /\ \E replies \in ChartReplies(analysis_type, symbol, symbols) :
            /\ client' = [api |-> analysis_type, replies |-> replies]
            /\ request' = [op |-> "get_analysis_chart", analysis_type |-> analysis_type,
                           symbol |-> symbol, symbols |-> symbols]
            /\ response' = get_analysis_chart(analysis_type, symbol, symbols, replies, now)
            /\ UNCHANGED <<serializer_vars, pyplot_vars>>

\* The analyzer of the endpoints module, before its first call.
InitApi ==
    /\ NoSerializer
    /\ NoPyplot
    /\ NoApi

\* A call of the analyzer, or a request to the chart endpoint.
NextApi ==
    \/ GetMarketStatistics
    \/ GetTechnicalAnalysis
    \/ GetCorrelationAnalysis
    \/ GetLiquidityAnalysis
    \/ GetAnalysisChart

SpecApi == InitApi /\ [][NextApi]_vars

(***************************************************************************)
(* Properties.                                                             *)
(***************************************************************************)
Done == pc \in {"returned", "raised"}

MarkerKeys == {"summary", "time_series_data", "correlation_matrix", "order_book_depth"}

\* The marker keys among the top-level keys of a tree.
Markers(d) == {k \in MarkerKeys : HasKey(d, k)}

\* The shape a rendering path stands for.
ShapeOf(p) ==
    CASE p = "market_stats" -> "aggregate-summary"
      [] p = "technical" -> "time-series"
      [] p = "correlation" -> "matrix"
      [] p = "liquidity" -> "hierarchical-depth"
      [] OTHER -> "generic"

\* C1: get_serializer returns, for each of json, csv, html, xml and chart, an
\* instance of that format's class (five distinct classes), and for every
\* other identifier raises ValueError "Unsupported format..." and constructs
\* no serializer.
C1_FactoryContract ==
    /\ pc # "start" =>
         (pc = "rejected" <=> fmt \notin {"json", "csv", "html", "xml", "chart"})
    /\ pc \in {"constructed", "returned", "raised"} =>
         /\ fmt = "json" => ser = "JSONSerializer"
         /\ fmt = "csv" => ser = "CSVSerializer"
         /\ fmt = "html" => ser = "HTMLSerializer"
         /\ fmt = "xml" => ser = "XMLSerializer"
         /\ fmt = "chart" => ser = "ChartSerializer"
    /\ pc = "rejected" =>
         /\ ser = "None"
         /\ out = NoOutput
         /\ err = "ValueError: Unsupported format: " \o fmt

C1_Witness == pc = "rejected" /\ fmt = "xyz" /\ ser = "None"

\* The output of a returned call is not empty.
NonEmptyOutput ==
    /\ out.kind # "none"
    /\ out.kind = "csv" => Len(out.body) > 0
    /\ out.kind = "json" => out.body # ""

\* C2: for a tree with none of the four marker keys, serialize() of the csv,
\* html, xml and chart serializers returns a non-empty output and does not
\* raise.
C2_GenericNeverRaises ==
    (Done /\ fmt \in {"csv", "html", "xml", "chart"} /\ Markers(data) = {}) =>
        (pc = "returned" /\ NonEmptyOutput)

\* C3: the CSV, HTML and chart serializers select the same shape for every
\* tree.
C3_SameShapeEverywhere ==
    (Done /\ fmt \in {"csv", "html", "chart"}) =>
        /\ ShapeOf(path) = ShapeOf(CSVPath(data))
        /\ ShapeOf(path) = ShapeOf(HTMLPath(data))
        /\ ShapeOf(path) = ShapeOf(ChartPath(data))

\* The first match on the marker keys present, in the fixed order.
FirstMatch(ms) ==
    IF "summary" \in ms THEN "market_stats"
    ELSE IF "time_series_data" \in ms THEN "technical"
    ELSE IF "correlation_matrix" \in ms THEN "correlation"
    ELSE IF "order_book_depth" \in ms THEN "liquidity"
    ELSE "generic"

\* C4: CSVSerializer.serialize and HTMLSerializer.serialize take the path of
\* the first match in the order summary, time_series_data,
\* correlation_matrix, order_book_depth, else generic; the path depends only
\* on which marker keys the tree has.
C4_FirstMatchWins ==
    (Done /\ fmt \in {"csv", "html"}) => path = FirstMatch(Markers(data))

C4_Witness ==
    /\ Done /\ fmt = "csv"
    /\ Markers(data) = {"summary", "time_series_data"}
    /\ data.kv[1][1] = "time_series_data"
    /\ path = "market_stats"

\* C5: HTMLSerializer.serialize never raises for a tree of a recognised
\* shape when a field the template references is absent; a document is
\* still returned.
C5_HtmlDegradesGracefully ==
    (Done /\ fmt = "html" /\ Markers(data) # {}) => pc = "returned"

\* The sub-fields the chart of the selected shape needs are missing or empty.
ChartFieldsMissing(d) ==
    LET p == ChartPath(d) IN
    CASE p = "technical" ->
           LET ts == Get(d, "time_series_data") IN
           /\ IsList(ts)
           /\ \A i \in 1..Len(ts.el) : IsDict(ts.el[i])
           /\ \/ Len(ts.el) = 0
              \/ \E i \in 1..Len(ts.el) :
                    ~HasKey(ts.el[i], "timestamp") \/ ~HasKey(ts.el[i], "close")
      [] p = "correlation" ->
           LET cm == Get(d, "correlation_matrix") IN
           IsDict(cm) /\ ~HasKey(cm, "raw_matrix")
      [] p = "market_stats" ->
           LET r == Get(d, "rankings") IN
           /\ IsDict(r)
           /\ \/ ~HasKey(r, "top_performers")
              \/ LET tp == Get(r, "top_performers") IN
                 /\ IsList(tp)
                 /\ \A i \in 1..Len(tp.el) : IsDict(tp.el[i])
                 /\ \E i \in 1..Len(tp.el) :
                       \/ ~HasKey(tp.el[i], "symbol")
                       \/ ~HasKey(tp.el[i], "price_change_percent")
      [] p = "liquidity" ->
           LET ob == Get(d, "order_book_depth") IN
           /\ IsDict(ob)
           /\ \E side \in {"bids", "asks"} :
                 \/ ~HasKey(ob, side)
                 \/ /\ IsDict(Get(ob, side))
                    /\ \/ ~HasKey(Get(ob, side), "depth_levels")
                       \/ Get(Get(ob, side), "depth_levels") = List(<<>>)
      [] OTHER -> FALSE

\* C6: when the sub-fields the selected chart needs are missing or empty,
\* ChartSerializer.serialize renders a placeholder image stating that no
\* chart is available and returns image bytes; it never raises.
C6_ChartPlaceholder ==
    (Done /\ fmt = "chart" /\ ChartFieldsMissing(data)) => pc = "returned"

\* C7: CSVSerializer.serialize never raises, whatever value a marker key
\* maps to and whichever optional sub-structures are absent or empty.
C7_CsvNeverRaises ==
    (Done /\ fmt = "csv") => pc = "returned"

\* The leaves of a tree in pre-order, left to right, each with its path from
\* the root: the mapping keys and the zero-based sequence indices passed.  A
\* sequence element that is not a mapping is a leaf.
KeyStep(k) == [kind |-> "key", s |-> k]
IndexStep(i) == [kind |-> "index", s |-> IntStr(i)]

RECURSIVE Leaves(_, _)
Leaves(v, p) ==
    CASE v.t = "dict" ->
           Concat([i \in 1..Len(v.kv) |->
                     Leaves(v.kv[i][2], Append(p, KeyStep(v.kv[i][1])))])
      [] v.t = "list" ->
           Concat([i \in 1..Len(v.el) |->
                     IF IsDict(v.el[i])
                     THEN Leaves(v.el[i], Append(p, IndexStep(i - 1)))
                     ELSE << [path |-> Append(p, IndexStep(i - 1)), value |-> v.el[i]] >>])
      [] OTHER -> << [path |-> p, value |-> v] >>

\* The key of a path as the claim words it: P_K under prefix P, K at the root.
RootKey(p) == JoinStr([i \in 1..Len(p) |-> p[i].s], "_")

\* The key of a path with the prefix rule amended: a mapping key K under
\* prefix P gives P_K, and K whenever P is the empty string.
RECURSIVE PrefixKey(_)
PrefixKey(p) ==
    IF Len(p) = 0 THEN ""
    ELSE LET P == PrefixKey(SubSeq(p, 1, Len(p) - 1))
             last == p[Len(p)]
         IN IF last.kind = "key" /\ P = "" THEN last.s ELSE P \o "_" \o last.s

GenericCsvReturned == pc = "returned" /\ fmt = "csv" /\ path = "generic"

\* C8 (as claimed): for a generic tree the CSV output is the header key,value
\* and then the flattened pairs in pre-order, a mapping key K under prefix P
\* giving P_K (K at the root), a sequence element at index I giving P_I.
C8_FlattenRootRule ==
    GenericCsvReturned =>
        out.body = << <<"key", "value">> >> \o
            [i \in 1..Len(Leaves(data, <<>>)) |->
                <<RootKey(Leaves(data, <<>>)[i].path),
                  CsvCell(Leaves(data, <<>>)[i].value)>>]

\* C8 (amended): the same, with a mapping key K under prefix P giving P_K
\* when P is not empty and K when P is empty, which is the case at the root
\* and also under an empty-string key.
C8_FlattenPreOrder ==
    GenericCsvReturned =>
        out.body = << <<"key", "value">> >> \o
            [i \in 1..Len(Leaves(data, <<>>)) |->
                <<PrefixKey(Leaves(data, <<>>)[i].path),
                  CsvCell(Leaves(data, <<>>)[i].value)>>]

C8_Witness ==
    /\ GenericCsvReturned
    /\ data = Dict(<< <<"a", Dict(<< <<"b", Integer(1)>>,
                                    <<"c", List(<<Integer(1), Integer(2)>>)>> >>)>> >>)
    /\ out.body = << <<"key", "value">>, <<"a_b", "1">>, <<"a_c_0", "1">>, <<"a_c_1", "2">> >>

\* The rows after the header have pairwise different keys.
DistinctKeys(rows) ==
    \A i, j \in 2..Len(rows) : i # j => rows[i][1] # rows[j][1]

\* The mapping keys of a tree, at every depth.
RECURSIVE AllKeys(_)
AllKeys(v) ==
    CASE v.t = "dict" ->
           {v.kv[i][1] : i \in 1..Len(v.kv)}
           \cup UNION {AllKeys(v.kv[i][2]) : i \in 1..Len(v.kv)}
      [] v.t = "list" -> UNION {AllKeys(v.el[i]) : i \in 1..Len(v.el)}
      [] OTHER -> {}

\* A key that is not empty and holds no underscore.
PlainKey(k) == Len(Pieces(k)) > 0 /\ \A i \in 1..Len(Pieces(k)) : Pieces(k)[i] # "_"

\* C9 (as claimed): the pairs the flattener produces for a well-formed tree
\* hold no two pairs with the same key string.
C9_FlattenKeysUnique ==
    GenericCsvReturned => DistinctKeys(out.body)

\* C9 (amended): the pairs hold no two pairs with the same key string when
\* every mapping key of the tree is non-empty and contains no underscore;
\* with an underscore or an empty key two pairs can share a key string.
C9_PlainKeysUnique ==
    (GenericCsvReturned /\ \A k \in AllKeys(data) : PlainKey(k)) =>
        DistinctKeys(out.body)

C9_Witness ==
    /\ GenericCsvReturned
    /\ \A k \in AllKeys(data) : PlainKey(k)
    /\ Len(out.body) >= 5
    /\ \E i \in 1..Len(data.kv) : IsList(data.kv[i][2])

\* rankings.top_performers is present in the tree.
HasTopPerformers(d) ==
    /\ HasKey(d, "rankings")
    /\ IsDict(Get(d, "rankings"))
    /\ HasKey(Get(d, "rankings"), "top_performers")

\* C10: for an aggregate-summary tree the CSV output is the header row
\* metric,value; one row summary_<key>,<value> per pair under summary, in
\* order; and, only if rankings.top_performers is present, a separator row,
\* the header row symbol,price_change_percent and one row per top performer
\* in order, with an empty cell for a missing field.
C10_MarketStatsGrid ==
    (pc = "returned" /\ fmt = "csv" /\ HasKey(data, "summary")) =>
        LET s == Get(data, "summary")
            n == Len(s.kv)
            rows == out.body
        IN /\ Len(rows) >= n + 1
           /\ rows[1] = <<"metric", "value">>
           /\ \A i \in 1..n :
                 rows[1 + i] = <<"summary_" \o s.kv[i][1], CsvCell(s.kv[i][2])>>
           /\ IF HasTopPerformers(data)
              THEN LET tp == Get(Get(data, "rankings"), "top_performers")
                       m == IF IsList(tp) THEN Len(tp.el) ELSE 0
                   IN /\ Len(rows) = n + 3 + m
                      /\ rows[n + 2] = <<"--- top_performers ---", "">>
                      /\ rows[n + 3] = <<"symbol", "price_change_percent">>
                      /\ \A j \in 1..m :
                            /\ Len(rows[n + 3 + j]) = 2
                            /\ rows[n + 3 + j][1] =
                                 (IF HasKey(tp.el[j], "symbol")
                                  THEN CsvCell(Get(tp.el[j], "symbol")) ELSE "")
                            /\ rows[n + 3 + j][2] =
                                 (IF HasKey(tp.el[j], "price_change_percent")
                                  THEN CsvCell(Get(tp.el[j], "price_change_percent"))
                                  ELSE "")
              ELSE Len(rows) = n + 1

C10_Witness ==
    /\ pc = "returned" /\ fmt = "csv" /\ HasKey(data, "summary")
    /\ HasTopPerformers(data)
    /\ out.body = << <<"metric", "value">>,
                     <<"summary_total_symbols", "2">>,
                     <<"summary_avg_price_change_percent", "1.5">>,
                     <<"--- top_performers ---", "">>,
                     <<"symbol", "price_change_percent">>,
                     <<"BTCUSDT", "5.0">> >>

\* A tree whose time_series_data is a non-empty sequence of mappings.
HasSeries(d) ==
    /\ HasKey(d, "time_series_data")
    /\ IsList(Get(d, "time_series_data"))
    /\ Len(Get(d, "time_series_data").el) > 0
    /\ \A i \in 1..Len(Get(d, "time_series_data").el) :
         IsDict(Get(d, "time_series_data").el[i])

\* C11: for a time-series tree with a non-empty time_series_data sequence the
\* CSV grid is a header row holding the keys of the first element in their
\* order, then one row per element in sequence order (rows = length + 1);
\* each row has as many cells as the header and lists the element's values
\* in the header's key order, with an empty cell for a key it lacks.
C11_TechnicalGrid ==
    (fmt = "csv" /\ Done /\ path = "technical" /\ HasSeries(data)) =>
        /\ pc = "returned"
        /\ LET rows == Get(data, "time_series_data").el
               grid == out.body
           IN /\ Len(grid) = Len(rows) + 1
              /\ grid[1] = Keys(rows[1])
              /\ \A i \in 1..Len(rows) :
                   /\ Len(grid[i + 1]) = Len(grid[1])
                   /\ \A j \in 1..Len(grid[1]) :
                        grid[i + 1][j] =
                          IF HasKey(rows[i], grid[1][j])
                          THEN CsvCell(Get(rows[i], grid[1][j]))
                          ELSE ""

\* A two-element series whose second element lacks keys of the first one was
\* written as a grid of three rows with empty cells.
C11_Witness ==
    /\ fmt = "csv" /\ pc = "returned" /\ path = "technical"
    /\ Get(data, "time_series_data") = List(<<Candle2, Candle3>>)
    /\ Len(out.body) = 3
    /\ out.body[3] = <<"", "100", "">>

\* A tree whose correlation_matrix is a mapping that has raw_matrix, a
\* mapping of mappings.
HasRawMatrix(d) ==
    /\ HasKey(d, "correlation_matrix")
    /\ IsDict(Get(d, "correlation_matrix"))
    /\ HasKey(Get(d, "correlation_matrix"), "raw_matrix")
    /\ IsDict(Get(Get(d, "correlation_matrix"), "raw_matrix"))
    /\ \A i \in 1..Len(Get(Get(d, "correlation_matrix"), "raw_matrix").kv) :
         IsDict(Get(Get(d, "correlation_matrix"), "raw_matrix").kv[i][2])

\* C12: for a matrix tree with correlation_matrix.raw_matrix present the CSV
\* grid is the header symbol followed by the top-level keys of raw_matrix in
\* order, then one row per key in the same order: the key, then that key's
\* value against every header label in header order, empty where the inner
\* mapping lacks the label; n rows of n + 1 cells for n labels.
C12_CorrelationGrid ==
    (fmt = "csv" /\ Done /\ path = "correlation" /\ HasRawMatrix(data)) =>
        /\ pc = "returned"
        /\ LET matrix == Get(Get(data, "correlation_matrix"), "raw_matrix")
               n == Len(matrix.kv)
               grid == out.body
           IN /\ Len(grid) = n + 1
              /\ Len(grid[1]) = n + 1
              /\ grid[1][1] = "symbol"
              /\ \A j \in 1..n : grid[1][j + 1] = matrix.kv[j][1]
              /\ \A i \in 1..n :
                   /\ Len(grid[i + 1]) = n + 1
                   /\ grid[i + 1][1] = matrix.kv[i][1]
                   /\ \A j \in 1..n :
                        grid[i + 1][j + 1] =
                          IF HasKey(matrix.kv[i][2], matrix.kv[j][1])
                          THEN CsvCell(Get(matrix.kv[i][2], matrix.kv[j][1]))
                          ELSE ""

\* A two-label matrix with a sparse row was written as a square grid.
C12_Witness ==
    /\ fmt = "csv" /\ pc = "returned" /\ path = "correlation"
    /\ Get(data, "correlation_matrix") = Dict(<< <<"raw_matrix", Matrix1>> >>)
    /\ out.body = << <<"symbol", "BTC", "ETH">>,
                     <<"BTC", "1.0", "">>,
                     <<"ETH", "", "">> >>

\* One side of the book is absent, or a mapping whose depth_levels, when it
\* has them, is a sequence of mappings.
SideWellFormed(ob, key) ==
    HasKey(ob, key) =>
        /\ IsDict(Get(ob, key))
        /\ HasKey(Get(ob, key), "depth_levels") =>
             /\ IsList(Get(Get(ob, key), "depth_levels"))
             /\ \A i \in 1..Len(Get(Get(ob, key), "depth_levels").el) :
                  IsDict(Get(Get(ob, key), "depth_levels").el[i])

\* A tree whose order_book_depth is a mapping with well-formed sides.
HasBook(d) ==
    /\ HasKey(d, "order_book_depth")
    /\ IsDict(Get(d, "order_book_depth"))
    /\ SideWellFormed(Get(d, "order_book_depth"), "bids")
    /\ SideWellFormed(Get(d, "order_book_depth"), "asks")

\* order_book_depth.<key>.depth_levels; no entry when the side or its
\* depth_levels is absent.
BookLevels(d, key) ==
    LET ob == Get(d, "order_book_depth") IN
    IF HasKey(ob, key) /\ HasKey(Get(ob, key), "depth_levels")
    THEN Get(Get(ob, key), "depth_levels").el
    ELSE <<>>

\* The cell of field k in the row of a depth level.
LevelCell(level, k) == IF HasKey(level, k) THEN CsvCell(Get(level, k)) ELSE ""

\* C13: for a hierarchical-depth tree the CSV grid starts with the header
\* side,level,price,quantity,cumulative_volume, followed by one bid row for
\* every entry of order_book_depth.bids.depth_levels in its order and, only
\* after all bid rows, one ask row for every entry of
\* order_book_depth.asks.depth_levels in its order; an empty or absent side
\* contributes no row.
C13_LiquidityGrid ==
    (fmt = "csv" /\ Done /\ path = "liquidity" /\ HasBook(data)) =>
        /\ pc = "returned"
        /\ LET bids == BookLevels(data, "bids")
               asks == BookLevels(data, "asks")
               grid == out.body
           IN /\ Len(grid) = 1 + Len(bids) + Len(asks)
              /\ grid[1] = <<"side", "level", "price", "quantity", "cumulative_volume">>
              /\ \A i \in 1..Len(bids) :
                   grid[1 + i] = <<"bid", LevelCell(bids[i], "level"),
                                   LevelCell(bids[i], "price"),
                                   LevelCell(bids[i], "quantity"),
                                   LevelCell(bids[i], "cumulative_volume")>>
              /\ \A i \in 1..Len(asks) :
                   grid[1 + Len(bids) + i] =
                       <<"ask", LevelCell(asks[i], "level"),
                         LevelCell(asks[i], "price"),
                         LevelCell(asks[i], "quantity"),
                         LevelCell(asks[i], "cumulative_volume")>>
              /\ \A i, j \in 2..Len(grid) :
                   (grid[i][1] = "ask" /\ grid[j][1] = "bid") => j < i

\* A book with one level on each side gave the header, the bid row and then
\* the ask row.
C13_Witness ==
    /\ fmt = "csv" /\ pc = "returned" /\ path = "liquidity"
    /\ Get(data, "order_book_depth") =
         Dict(<< <<"bids", Side(<<Level1>>)>>, <<"asks", Side(<<Level2>>)>> >>)
    /\ out.body = << <<"side", "level", "price", "quantity", "cumulative_volume">>,
                     <<"bid", "1", "100", "2", "2">>,
                     <<"ask", "1", "101", "3", "3">> >>

\* The tags of an element and of all the elements under it.
RECURSIVE Tags(_)
Tags(el) ==
    {el.tag} \cup UNION {Tags(el.children[i]) : i \in 1..Len(el.children)}

\* The pieces that are runs of digits, and the characters that no XML name
\* may hold.
DigitRuns == {"0", "1", "5", "20"}
NotNameChars == {" ", "%", "+"}

\* An XML name, cut into pieces: it is not empty, starts with a letter or an
\* underscore (not with a digit or a hyphen) and holds name characters only.
ValidName(p) ==
    /\ Len(p) > 0
    /\ p[1] \notin DigitRuns \cup {"-"}
    /\ \A i \in 1..Len(p) : p[i] \notin NotNameChars

\* The strings of the model that are valid XML names: the keys, and what
\* the serializer's replacements make of them, that pass ValidName.
ValidNames ==
    LET cleaned == {[i \in 1..Len(q) |-> CleanPiece(q[i])] : q \in KeyPieces}
    IN {JoinStr(p, "") : p \in {q \in KeyPieces \cup cleaned : ValidName(q)}}
       \cup {"binance_data", "item"}

\* C14: every element name the XML serializer emits for a mapping key is a
\* valid XML element name, for every string key of a tree (the keys of the
\* analysis producers included), so the document is well-formed.
C14_XmlNamesValid ==
    (fmt = "xml" /\ pc = "returned") => Tags(out.body) \subseteq ValidNames

\* An element mirrors a value: a mapping is an element with one child per
\* key, a sequence an element with one item child per element, a scalar a
\* leaf; and so at every depth.
RECURSIVE Isomorphic(_, _)
Isomorphic(v, el) ==
    CASE v.t = "dict" ->
           /\ Len(el.children) = Len(v.kv)
           /\ \A i \in 1..Len(v.kv) : Isomorphic(v.kv[i][2], el.children[i])
      [] v.t = "list" ->
           /\ Len(el.children) = Len(v.el)
           /\ \A i \in 1..Len(v.el) :
                /\ el.children[i].tag = "item"
                /\ Isomorphic(v.el[i], el.children[i])
      [] OTHER -> Len(el.children) = 0

\* C15: the element tree the XML serializer produces is isomorphic to the
\* input tree: one child per key of a mapping in key order, one item child
\* per element of a sequence in order, a leaf with text per scalar, at every
\* depth, sequences and mappings nested in sequences included.
C15_XmlIsomorphic ==
    (fmt = "xml" /\ pc = "returned") => Isomorphic(data, out.body)

\* The string form a scalar has as element text: empty for null.
ScalarText(v) == IF v.t = "none" THEN "" ELSE PyStr(v)

\* The element that recursing into `parent` with value v gives when every
\* value, whatever its kind, is recursed into.
RECURSIVE Recursed(_, _)
Recursed(v, parent) ==
    CASE v.t = "dict" ->
           [parent EXCEPT !.children =
              [i \in 1..Len(v.kv) |->
                 Recursed(v.kv[i][2], Element(CleanKey(v.kv[i][1]), <<>>, "", <<>>))]]
      [] v.t = "list" ->
           [parent EXCEPT !.children =
              [i \in 1..Len(v.el) |->
                 Recursed(v.el[i],
                          Element("item", << <<"index", IntStr(i - 1)>> >>, "", <<>>))]]
      [] OTHER -> [parent EXCEPT !.text = ScalarText(v)]

\* Every sequence under v, at any depth, has as children of its element the
\* item elements with indexes 0..n-1, each the recursion on its element.
RECURSIVE SequencesRecursed(_, _)
SequencesRecursed(v, el) ==
    CASE v.t = "dict" ->
           /\ Len(el.children) = Len(v.kv)
           /\ \A i \in 1..Len(v.kv) : SequencesRecursed(v.kv[i][2], el.children[i])
      [] v.t = "list" ->
           /\ Len(el.children) = Len(v.el)
           /\ \A i \in 1..Len(v.el) :
                /\ el.children[i].tag = "item"
                /\ el.children[i].attrs = << <<"index", IntStr(i - 1)>> >>
                /\ el.children[i] =
                     Recursed(v.el[i],
                              Element("item", << <<"index", IntStr(i - 1)>> >>, "", <<>>))
      [] OTHER -> TRUE

\* C16: for a sequence at any depth the XML serializer creates for each
\* element, in order, one child named item whose index attribute is the
\* element's zero-based position (0..n-1 in all), and recurses into that
\* child with the element's value, be it a mapping, a sequence or a scalar.
C16_XmlItemsRecursed ==
    (fmt = "xml" /\ pc = "returned") => SequencesRecursed(data, out.body)

\* Every scalar under v is held by an element whose text is its string form.
RECURSIVE ScalarsAsText(_, _)
ScalarsAsText(v, el) ==
    CASE v.t = "dict" ->
           /\ Len(el.children) = Len(v.kv)
           /\ \A i \in 1..Len(v.kv) : ScalarsAsText(v.kv[i][2], el.children[i])
      [] v.t = "list" ->
           /\ Len(el.children) = Len(v.el)
           /\ \A i \in 1..Len(v.el) : ScalarsAsText(v.el[i], el.children[i])
      [] OTHER -> el.text = ScalarText(v)

\* C17: for every scalar anywhere in the tree, the value of a mapping key or
\* an element of a sequence, the XML element that holds it has as text the
\* value's string form, and the empty string when the value is null.
C17_XmlScalarText ==
    (fmt = "xml" /\ pc = "returned") => ScalarsAsText(data, out.body)

\* The name the claim gives the child of key k: every space and every
\* hyphen an underscore, every % the word percent, the rest unchanged.
Sanitized(k) ==
    JoinStr([i \in 1..Len(Pieces(k)) |->
               IF Pieces(k)[i] \in {" ", "-"} THEN "_"
               ELSE IF Pieces(k)[i] = "%" THEN "percent"
               ELSE Pieces(k)[i]], "")

\* Every mapping under v that the serializer recursed into has one child
\* per key/value pair, in key order, named by the sanitized key.
RECURSIVE MappingChildren(_, _)
MappingChildren(v, el) ==
    CASE v.t = "dict" ->
           /\ Len(el.children) = Len(v.kv)
           /\ \A i \in 1..Len(v.kv) :
                /\ el.children[i].tag = Sanitized(v.kv[i][1])
                /\ el.children[i].attrs = <<>>
                /\ MappingChildren(v.kv[i][2], el.children[i])
      [] v.t = "list" ->
           /\ Len(el.children) = Len(v.el)
           /\ \A i \in 1..Len(v.el) :
                IsDict(v.el[i]) => MappingChildren(v.el[i], el.children[i])
      [] OTHER -> Len(el.children) = 0

\* C18: for a mapping node the XML serializer creates exactly one child
\* element per key/value pair, in key order, named by the key with every
\* space replaced by an underscore, every % by the word percent and every -
\* by an underscore, all other characters unchanged, and recurses into that
\* child with the value.
C18_XmlMappingChildren ==
    (fmt = "xml" /\ pc = "returned") => MappingChildren(data, out.body)

\* Keys with a space, a hyphen and a % were written as data_source,
\* 0_1percent and 5percent+.
C18_Witness ==
    /\ fmt = "xml" /\ pc = "returned"
    /\ data = Dict(<< <<"order_book_depth",
                        Dict(<< <<"bids", Dict(<< <<"depth_levels", List(<<Level1>>)>>,
                                                  <<"volume_distribution", VolumeBuckets>> >>)>> >>)>>,
                      <<"metadata", Dict(<< <<"data source", Str("x")>> >>)>> >>)
    /\ out.body.children[2] =
         Element("metadata", <<>>, "", <<Element("data_source", <<>>, "x", <<>>)>>)
    /\ out.body.children[1].children[1].children[2] =
         Element("volume_distribution", <<>>, "",
                 <<Element("0_1percent", <<>>, "2", <<>>),
                   Element("5percent+", <<>>, "0", <<>>)>>)

\* C19: for every input tree the XML output is a document with exactly one
\* root element, binance_data, that carries a timestamp attribute holding
\* the serializer's generation time; all the elements that encode the tree
\* are under that root.
C19_XmlSingleRoot ==
    (fmt = "xml" /\ Done) =>
        /\ pc = "returned"
        /\ out.body.tag = "binance_data"
        /\ out.body.attrs = << <<"timestamp", timestamp>> >>
        /\ timestamp \in Clock
        /\ Len(out.body.children) = Len(data.kv)

\* A tree of two top-level keys was written under one stamped root.
C19_Witness ==
    /\ fmt = "xml" /\ pc = "returned"
    /\ Len(data.kv) = 2
    /\ out.body.tag = "binance_data"
    /\ out.body.attrs = << <<"timestamp", "2026-01-01T00:00:01">> >>
    /\ Len(out.body.children) = 2

C21_CallsIndependent ==
    \A c \in Callers :
        /\ callers[c].pc = "returned" =>
             /\ ChartSerialize(callers[c].data).ok
             /\ callers[c].out = ChartSerialize(callers[c].data).val
        /\ callers[c].pc = "raised" =>
             /\ ~ChartSerialize(callers[c].data).ok
             /\ callers[c].err = ChartSerialize(callers[c].data).err

C23_ContentTypeByFormat ==
    content_type # "" =>
        /\ fmt = "json" => content_type = "application/json"
        /\ fmt = "csv" => content_type = "text/csv"
        /\ fmt = "html" => content_type = "text/html"
        /\ fmt = "xml" => content_type = "application/xml"
        /\ fmt = "chart" => content_type = "image/png"
        /\ fmt \in {"json", "csv", "html", "xml", "chart"}

\* The XML serializer of a tree of two keys gave application/xml.
C23_Witness ==
    /\ fmt = "xml" /\ pc = "constructed" /\ Len(data.kv) = 2
    /\ content_type = "application/xml"

\* The ints, and the floats in tenths, of the model's trees.
IntsRead == {0, 1, 2, 3, 5, 100, 101, 123}
TenthsRead == {-10, 5, 10, 15, 25, 50, 100, 750}

\* The number json reads from the text s: an int when s has no fraction
\* part, a float otherwise.
NumberOf(s) ==
    IF \E n \in IntsRead : IntStr(n) = s
    THEN Integer(CHOOSE n \in IntsRead : IntStr(n) = s)
    ELSE Float(CHOOSE m \in TenthsRead : FloatStr(m) = s)

\* json.loads, on the tokens of a document without its white space: the
\* value that starts at token i and the place of the token after it.
RECURSIVE ParseValue(_, _)
RECURSIVE ParseItems(_, _, _)
RECURSIVE ParseMembers(_, _, _)
ParseValue(toks, i) ==
    CASE toks[i].k = "literal" ->
           [val |-> CASE toks[i].s = "null" -> None
                      [] toks[i].s = "true" -> Bool(TRUE)
                      [] toks[i].s = "false" -> Bool(FALSE),
            next |-> i + 1]
      [] toks[i].k = "number" -> [val |-> NumberOf(toks[i].s), next |-> i + 1]
      [] toks[i].k = "string" -> [val |-> Str(toks[i].s), next |-> i + 1]
      [] toks[i] = Token("punct", "[") ->
           IF toks[i + 1] = Token("punct", "]")
           THEN [val |-> List(<<>>), next |-> i + 2]
           ELSE ParseItems(toks, i + 1, <<>>)
      [] toks[i] = Token("punct", "{") ->
           IF toks[i + 1] = Token("punct", "}")
           THEN [val |-> Dict(<<>>), next |-> i + 2]
           ELSE ParseMembers(toks, i + 1, <<>>)

ParseItems(toks, i, items) ==
    CHOOSE list \in
        {IF toks[item.next] = Token("punct", ",")
         THEN ParseItems(toks, item.next + 1, Append(items, item.val))
         ELSE [val |-> List(Append(items, item.val)), next |-> item.next + 1] :
            item \in {ParseValue(toks, i)}} : TRUE

ParseMembers(toks, i, members) ==
    CHOOSE dict \in
        {IF toks[value.next] = Token("punct", ",")
         THEN ParseMembers(toks, value.next + 1,
                           Append(members, <<toks[i].s, value.val>>))
         ELSE [val |-> Dict(Append(members, <<toks[i].s, value.val>>)),
               next |-> value.next + 1] :
            value \in {ParseValue(toks, i + 2)}} : TRUE

IsText(tok) == tok.k # "ws"

\* json.loads of the document the tokens spell.
JsonLoads(toks) ==
    CHOOSE v \in {ParseValue(text, 1).val : text \in {SelectSeq(toks, IsText)}} :
        TRUE

\* C24: JSON serialization is a structural passthrough: decoding the output
\* of JSONSerializer.serialize yields a tree equal to the input, with the
\* same keys in the same order and the same values at every depth.
C24_JsonRoundTrip ==
    (fmt = "json" /\ Done) =>
        /\ pc = "returned"
        /\ \A toks \in {JsonTokens(data, 0)} :
              /\ out.body = TokensText(toks)
              /\ JsonLoads(toks) = data

\* The tree of the JSON test, with a nested mapping and a boolean, was
\* written and decodes to itself.
C24_Witness ==
    /\ fmt = "json" /\ pc = "returned"
    /\ data = Dict(<< <<"test", Str("value")>>, <<"number", Integer(123)>>,
                      <<"nested", Dict(<< <<"key", Str("value")>>,
                                          <<"include_volume", Bool(FALSE)>> >>)>> >>)
    /\ JsonLoads(JsonTokens(data, 0)) = data

\* C25: ChartSerializer.serialize selects the layout in the priority order
\* time_series_data (line chart), correlation_matrix (heatmap), summary (bar
\* chart of top performers), order_book_depth (mirrored bars), and the
\* placeholder only when the tree has none of these keys: every tree with
\* summary and neither time_series_data nor correlation_matrix takes the
\* bar-chart path, and no tree without summary does.
C25_ChartDispatchBySummary ==
    (fmt = "chart" /\ Done) =>
        LET series == HasKey(data, "time_series_data")
            matrix == HasKey(data, "correlation_matrix")
            summary == HasKey(data, "summary")
            depth == HasKey(data, "order_book_depth")
        IN /\ path = "technical" <=> series
           /\ path = "correlation" <=> (~series /\ matrix)
           /\ path = "market_stats" <=> (~series /\ ~matrix /\ summary)
           /\ path = "liquidity" <=> (~series /\ ~matrix /\ ~summary /\ depth)
           /\ path = "placeholder" <=> (~series /\ ~matrix /\ ~summary /\ ~depth)

\* C26: get_market_statistics skips every requested symbol whose ticker
\* fetch fails and continues with the others; it returns the error result
\* "No data available for any symbols" exactly when the fetch failed for
\* every requested symbol, and otherwise a result whose
\* metadata.symbols_processed and summary.total_symbols both equal the number
\* of symbols fetched successfully.
C26_CountsFetchedSymbols ==
    request.op = "get_market_statistics" =>
        LET replies == client.replies
            fetched == Cardinality({i \in DOMAIN replies : replies[i].ok})
            NoData == Dict(<< <<"error", Str("No data available for any symbols")>> >>)
        IN /\ response = NoData <=> fetched = 0
           /\ fetched > 0 =>
                /\ Get(Get(response, "metadata"), "symbols_processed") = Integer(fetched)
                /\ Get(Get(response, "summary"), "total_symbols") = Integer(fetched)

\* A liquidity analysis returned a result, not an error.
LiquidityResult ==
    /\ request.op = "get_liquidity_analysis"
    /\ ~HasKey(response, "error")

\* The orders the client gave for a side, and the side in the result.
BookOrders(side) == client.replies[1].val[side]
ResultSide(side) == Get(Get(response, "order_book_depth"), side)

\* C29: in a liquidity analysis result with include_levels true, each side's
\* depth_levels lists the first min(20, number of orders) orders of the side
\* in book order; the i-th entry has level = i and its cumulative_volume is
\* the sum of the quantities of entries 1..i, so it never falls along the
\* sequence and its last value never exceeds the side's total_volume.  With
\* include_levels false, depth_levels is empty.
C29_DepthLevels ==
    LiquidityResult =>
        \A side \in {"bids", "asks"} :
            LET orders == BookOrders(side)
                levels == Get(ResultSide(side), "depth_levels").el
                total_volume == Get(ResultSide(side), "total_volume")
                Cumulative(i) == Get(levels[i], "cumulative_volume").m
            IN IF request.include_levels
               THEN /\ Len(levels) = (IF Len(orders) < 20 THEN Len(orders) ELSE 20)
                    /\ \A i \in 1..Len(levels) :
                         /\ Get(levels[i], "level") = Integer(i)
                         /\ Get(levels[i], "price") = Float(orders[i][1])
                         /\ Get(levels[i], "quantity") = Float(orders[i][2])
                         /\ Cumulative(i) = SumOf([h \in 1..i |-> orders[h][2]])
                         /\ i > 1 => Cumulative(i - 1) <= Cumulative(i)
                    /\ Len(levels) > 0 => Cumulative(Len(levels)) <= total_volume.m
               ELSE levels = <<>>

\* A book of more than 20 bids and two asks was analysed with its levels:
\* 20 bid levels and two ask levels came back.
C29_Witness ==
    /\ LiquidityResult /\ request.include_levels
    /\ Len(BookOrders("bids")) > 20
    /\ Len(Get(ResultSide("bids"), "depth_levels").el) = 20
    /\ BookOrders("asks") = << <<990, 600>>, <<1100, 5000>> >>
    /\ Get(Get(ResultSide("asks"), "depth_levels").el[2], "cumulative_volume") = Float(5600)

\* The estimate the result holds for a trade size and a side of the book.
ResultImpact(size, impact) ==
    Get(Get(Get(response, "price_impact_analysis"), "volume_" \o IntStr(size)), impact)

\* C30: estimate_price_impact(volume_target, orders) walks the orders in book
\* order, takes from each at most its quantity, stops once the volume taken
\* reaches volume_target, and takes in all no more than volume_target nor
\* than the quantity in the book; it returns avg_price and impact_percent of
\* None exactly when the volume taken is zero.
C30_PriceImpactWalk ==
    LiquidityResult =>
        \A i \in DOMAIN trade_sizes, side \in {"bids", "asks"} :
            LET volume_target == 10 * trade_sizes[i]
                orders == BookOrders(side)
                takes == Takes(volume_target, orders, 0)
                taken == SumOf(takes)
                Before(j) == SumOf(SubSeq(takes, 1, j - 1))
                estimate ==
                    ResultImpact(trade_sizes[i],
                                 IF side = "asks" THEN "buy_impact" ELSE "sell_impact")
            IN /\ Len(takes) <= Len(orders)
               /\ \A j \in 1..Len(takes) :
                    /\ takes[j] >= 0 /\ takes[j] <= orders[j][2]
                    /\ Before(j) < volume_target
               /\ Len(takes) < Len(orders) => taken >= volume_target
               /\ taken <= volume_target
               /\ taken <= SumOf([j \in 1..Len(orders) |-> orders[j][2]])
               /\ (Get(estimate, "avg_price") = None) <=> (taken = 0)
               /\ (Get(estimate, "impact_percent") = None) <=> (taken = 0)

\* A sell of 100 took the whole first bid and a part of the second, and a
\* buy found only an empty ask.
C30_Witness ==
    /\ LiquidityResult
    /\ BookOrders("bids") = << <<990, 600>>, <<1100, 5000>> >>
    /\ Takes(1000, BookOrders("bids"), 0) = <<600, 400>>
    /\ Get(ResultImpact(100, "sell_impact"), "avg_price") = Float(1034)
    /\ BookOrders("asks") = << <<1010, 0>> >>
    /\ Get(ResultImpact(100, "buy_impact"), "avg_price") = None

\* C27: every non-error result of the four analyzer methods contains exactly
\* one of the marker keys summary, time_series_data, correlation_matrix and
\* order_book_depth (market statistics: summary; technical analysis:
\* time_series_data; correlation analysis: correlation_matrix; liquidity
\* analysis: order_book_depth), for every combination of include_volume,
\* include_clusters and include_levels, and every error result contains none.
C27_OneMarkerPerResult ==
    LET marker == [get_market_statistics |-> "summary",
                   get_technical_analysis |-> "time_series_data",
                   get_correlation_analysis |-> "correlation_matrix",
                   get_liquidity_analysis |-> "order_book_depth"]
    IN request.op \in DOMAIN marker =>
          Markers(response) =
              IF HasKey(response, "error") THEN {} ELSE {marker[request.op]}

\* A correlation analysis with clusters returned its matrix and its
\* clusters, and no other marker key.
C27_Witness ==
    /\ request.op = "get_correlation_analysis" /\ request.include_clusters
    /\ HasKey(response, "risk_clusters")
    /\ Markers(response) = {"correlation_matrix"}

\* The request of the chart endpoint is rejected: its analysis type is not
\* one of the four, or its analysis needs a symbol and none is given.
Rejected ==
    \/ request.analysis_type \notin {"market", "technical", "correlation", "liquidity"}
    \/ request.analysis_type \in {"technical", "liquidity"} /\ ~Truthy(request.symbol)

\* C28: the chart endpoint answers with status 400 when analysis_type is not
\* one of market, technical, correlation, liquidity, and when it is technical
\* or liquidity and no symbol is given; status 500 is returned only for
\* producer error results and unexpected exceptions.
C28_RejectedWith400 ==
    request.op = "get_analysis_chart" =>
        /\ Rejected => response.status_code = 400
        /\ response.status_code = 500 => ~Rejected

====
